---- MODULE Spec2Model ----
(***************************************************************************)
(* A model of the DEFLATE / zlib decompressor of src/assets/zlib_inflate.rs *)
(* (decompress_zlib, decompress, the three block decoders, HuffmanTree and  *)
(* the bit reader Decoder) as a state machine: one call of an entry point   *)
(* on one input buffer, stepped block by block and symbol by symbol.        *)
(*                                                                         *)
(* Rust slices and arrays are 0-based; TLA+ sequences are 1-based, so the   *)
(* byte at Rust index i of a buffer s is s[i + 1].  Option::None is None.   *)
(* A Rust panic (index out of range, arithmetic underflow) is the outcome   *)
(* "abort": it ends the call without a Result.                              *)
(***************************************************************************)
EXTENDS Integers, Sequences, FiniteSets, TLC

VARIABLES
    entry,               \* which entry point was called
    input,               \* the buffer handed to the entry point
    shape,               \* how the input was made (ghost)
    plain,               \* the bytes the input encodes, when it encodes any (ghost)
    pc,                  \* position in the code
    decoder,             \* Decoder { data, byte, bit }
    output,              \* output: Vec<u8>
    blocks,              \* iterations of the block loop started so far
    bfinal, btype,       \* locals of decompress
    len,                 \* local of read_uncompressed
    hlit, hdist, hclen,  \* locals of read_trees
    code_length_tree,
    bitlengths, bitlengths_count,
    literal_tree, distance_tree,
    iterations,          \* iterations of the symbol loop started in this block
    symbol, length, distance,   \* locals of decode_length_distance_pairs
    result,              \* what the call returned
    arg, ret             \* in the specifications of one operation on its own: the
                         \* argument and the return value of the operation applied last

vars == <<entry, input, shape, plain, pc, decoder, output, blocks, bfinal, btype,
          len, hlit, hdist, hclen, code_length_tree, bitlengths, bitlengths_count,
          literal_tree, distance_tree, iterations, symbol, length, distance, result,
          arg, ret>>

\* Option::None for an index or a symbol
None == 0 - 1

-----------------------------------------------------------------------------
(* Constants defined in the source *)

TABLE_CODE_LENGTH_ORDER ==
    <<16, 17, 18, 0, 8, 7, 9, 6, 10, 5, 11, 4, 12, 3, 13, 2, 14, 1, 15>>

TABLE_LENGTH_EXTRA_BITS ==
    <<0, 0, 0, 0, 0, 0, 0, 0, 1, 1, 1, 1, 2, 2, 2, 2, 3, 3, 3, 3, 4, 4, 4, 4,
      5, 5, 5, 5, 0>>

TABLE_LENGTH_BASE ==
    <<3, 4, 5, 6, 7, 8, 9, 10, 11, 13, 15, 17, 19, 23, 27, 31, 35, 43, 51, 59,
      67, 83, 99, 115, 131, 163, 195, 227, 258>>

TABLE_DISTANCE_EXTRA_BITS ==
    <<0, 0, 0, 0, 1, 1, 2, 2, 3, 3, 4, 4, 5, 5, 6, 6, 7, 7, 8, 8, 9, 9, 10, 10,
      11, 11, 12, 12, 13, 13>>

TABLE_DISTANCE_BASE ==
    <<1, 2, 3, 4, 5, 7, 9, 13, 17, 25, 33, 49, 65, 97, 129, 193, 257, 385, 513,
      769, 1025, 1537, 2049, 3073, 4097, 6145, 8193, 12289, 16385, 24577>>

LARGE_ITERATION_COUNT == 100000000

\* the length of the arrays bitlengths (read_trees) and nodes (HuffmanTree)
ARRAY_LEN == 1024

-----------------------------------------------------------------------------
(* Decoder: the bit reader.  Every operation returns [ok, val, d]: ok is    *)
(* FALSE when the operation panics, val is the value returned and d the     *)
(* decoder afterwards.                                                      *)

from_bytes(data) == [data |-> data, byte |-> 0, bit |-> 0]

Panic(d) == [ok |-> FALSE, val |-> 0, d |-> d]

\* bit number i of the byte b
BitOf(b, i) == (b \div (2 ^ i)) % 2

\* next_bit gone wrong: the bits of a byte taken from the top
next_bit_msb(d) ==
    IF d.byte >= Len(d.data) THEN Panic(d)
    ELSE [ok |-> TRUE, val |-> BitOf(d.data[d.byte + 1], 7 - d.bit),
          d |-> IF d.bit + 1 >= 8
                THEN [d EXCEPT !.bit = 0, !.byte = d.byte + 1]
                ELSE [d EXCEPT !.bit = d.bit + 1]]

\* next_bit gone wrong: the cursor stays where it is
next_bit_stuck(d) ==
    IF d.byte >= Len(d.data) THEN Panic(d)
    ELSE [ok |-> TRUE, val |-> BitOf(d.data[d.byte + 1], d.bit), d |-> d]

next_bit(d) ==
    IF d.byte >= Len(d.data) THEN Panic(d)
    ELSE LET byte == d.data[d.byte + 1]
             b == BitOf(byte, d.bit)
         IN  [ok |-> TRUE, val |-> b,
              d |-> IF d.bit + 1 >= 8
                    THEN [d EXCEPT !.bit = 0, !.byte = d.byte + 1]
                    ELSE [d EXCEPT !.bit = d.bit + 1]]

\* the loop of next_bits from iteration i on, o being the bits gathered so far
RECURSIVE next_bits_loop(_, _, _, _)
next_bits_loop(d, n, i, o) ==
    IF i >= n THEN [ok |-> TRUE, val |-> o, d |-> d]
    ELSE LET r == next_bit(d)
         IN  IF ~r.ok THEN Panic(r.d)
             ELSE next_bits_loop(r.d, n, i + 1, o + r.val * (2 ^ i))

\* next_bits gone wrong: the first bit read ends up most significant
RECURSIVE next_bits_msb_loop(_, _, _, _)
next_bits_msb_loop(d, n, i, o) ==
    IF i >= n THEN [ok |-> TRUE, val |-> o, d |-> d]
    ELSE LET r == next_bit(d)
         IN  IF ~r.ok THEN Panic(r.d)
             ELSE next_bits_msb_loop(r.d, n, i + 1, 2 * o + r.val)
next_bits_msb(d, n) == next_bits_msb_loop(d, n, 0, 0)

next_bits(d, n) == next_bits_loop(d, n, 0, 0)

\* align gone wrong: a byte is skipped on a byte boundary too
align_always(d) == [d EXCEPT !.byte = d.byte + 1, !.bit = 0]

\* the skip of the unread bits of the current byte
align(d) == IF d.bit > 0 THEN [d EXCEPT !.byte = d.byte + 1, !.bit = 0] ELSE d

next_byte(d) ==
    LET a == align(d)
    IN  IF a.byte >= Len(a.data) THEN Panic(a)
        ELSE [ok |-> TRUE, val |-> a.data[a.byte + 1],
              d |-> [a EXCEPT !.byte = a.byte + 1]]

RECURSIVE next_bytes_as_number_loop(_, _, _, _)
next_bytes_as_number_loop(d, n, i, o) ==
    IF i >= n THEN [ok |-> TRUE, val |-> o, d |-> d]
    ELSE LET r == next_byte(d)
         IN  IF ~r.ok THEN Panic(r.d)
             ELSE next_bytes_as_number_loop(r.d, n, i + 1, o + r.val * (2 ^ (8 * i)))

next_bytes_as_number(d, n) == next_bytes_as_number_loop(d, n, 0, 0)

next_bytes_as_slice(d, n) ==
    LET a == align(d)
        current == a.byte
        moved == [a EXCEPT !.byte = a.byte + n]
    IN  IF moved.byte > Len(a.data) THEN Panic(moved)
        ELSE [ok |-> TRUE, val |-> SubSeq(a.data, current + 1, moved.byte),
              d |-> moved]

-----------------------------------------------------------------------------
(* HuffmanTree: an arena of nodes addressed by index, node 0 the root.  The *)
(* model keeps the nodes handed out so far, 0 .. next_free_node - 1, as a   *)
(* sequence (node i is nodes[i + 1]): the other entries of the source's     *)
(* array are never read.                                                    *)

HuffmanNode_default == [symbol |-> None, left |-> None, right |-> None]

new == [nodes |-> <<HuffmanNode_default>>, next_free_node |-> 1]

\* the child of node current on the side `side`, created when absent
descend(tree, current, side) ==
    IF tree.nodes[current + 1][side] = None
    THEN [tree |-> [nodes |-> Append([tree.nodes EXCEPT ![current + 1][side] =
                                          tree.next_free_node],
                                     HuffmanNode_default),
                    next_free_node |-> tree.next_free_node + 1],
          current |-> tree.next_free_node]
    ELSE [tree |-> tree, current |-> tree.nodes[current + 1][side]]

\* the loop of insert with i + 1 bits of the code left to walk
RECURSIVE insert_loop(_, _, _, _, _)
insert_loop(tree, code, i, current, sym) ==
    IF i < 0 THEN [tree EXCEPT !.nodes[current + 1].symbol = sym]
    ELSE LET bit == BitOf(code, i)
             s == descend(tree, current, IF bit # 0 THEN "right" ELSE "left")
         IN  insert_loop(s.tree, code, i - 1, s.current, sym)

\* insert gone wrong: the walk starts one bit too low
insert_short(tree, code, n, sym) == insert_loop(tree, code, n - 2, 0, sym)

insert(tree, code, n, sym) == insert_loop(tree, code, n - 1, 0, sym)

\* max of a nonempty sequence
max(s) == CHOOSE m \in {s[i] : i \in 1..Len(s)} : \A i \in 1..Len(s) : s[i] <= m

\* counts[i] of from_bitlengths
counts(bl, i) == Cardinality({j \in 1..Len(bl) : bl[j] = i /\ bl[j] # 0})

\* first_code gone wrong: the count of the length itself, not of the one before
RECURSIVE first_code_own_count(_, _, _)
first_code_own_count(bl, max_bits, bits) ==
    IF bits < 2 \/ bits > max_bits THEN 0
    ELSE (first_code_own_count(bl, max_bits, bits - 1) + counts(bl, bits)) * 2

\* next_code[bits] as the second loop of from_bitlengths leaves it
RECURSIVE first_code(_, _, _)
first_code(bl, max_bits, bits) ==
    IF bits < 2 \/ bits > max_bits THEN 0
    ELSE (first_code(bl, max_bits, bits - 1) + counts(bl, bits - 1)) * 2

\* next_code before the insertion loop: the entries 0 .. 15, the ones the loop
\* can read, as a sequence (next_code[bits] is first_codes(bl)[bits + 1])
first_codes(bl) ==
    LET max_bits == max(bl)
    IN  <<first_code(bl, max_bits, 0), first_code(bl, max_bits, 1),
          first_code(bl, max_bits, 2), first_code(bl, max_bits, 3),
          first_code(bl, max_bits, 4), first_code(bl, max_bits, 5),
          first_code(bl, max_bits, 6), first_code(bl, max_bits, 7),
          first_code(bl, max_bits, 8), first_code(bl, max_bits, 9),
          first_code(bl, max_bits, 10), first_code(bl, max_bits, 11),
          first_code(bl, max_bits, 12), first_code(bl, max_bits, 13),
          first_code(bl, max_bits, 14), first_code(bl, max_bits, 15)>>

\* one iteration of the insertion loop of from_bitlengths, st = [next_code, tree]
from_bitlengths_step(bl, alphabet, i, st) ==
    IF bl[i + 1] # 0
    THEN [next_code |-> [st.next_code EXCEPT ![bl[i + 1] + 1] = @ + 1],
          tree |-> insert(st.tree, st.next_code[bl[i + 1] + 1], bl[i + 1],
                          alphabet[i + 1])]
    ELSE st

\* the iterations lo .. hi - 1 of that loop in order.  The range is split in
\* halves and the first half is evaluated (its test always holds) before the
\* second starts, which keeps the evaluation shallow.
RECURSIVE from_bitlengths_loop(_, _, _, _, _)
from_bitlengths_loop(bl, alphabet, lo, hi, st) ==
    IF lo >= hi THEN st
    ELSE IF hi - lo = 1 THEN from_bitlengths_step(bl, alphabet, lo, st)
    ELSE LET mid == (lo + hi) \div 2
             half == from_bitlengths_loop(bl, alphabet, lo, mid, st)
         IN  IF half.tree.next_free_node >= 1
             THEN from_bitlengths_loop(bl, alphabet, mid, hi, half)
             ELSE half

from_bitlengths(bl, alphabet) ==
    from_bitlengths_loop(bl, alphabet, 0,
        IF Len(alphabet) < Len(bl) THEN Len(alphabet) ELSE Len(bl),
        [next_code |-> first_codes(bl), tree |-> new]).tree

\* the walk of decode_symbol from node current: [st, val, d] with st one of
\* "ok", "TreeError" and "abort"
RECURSIVE decode_symbol_loop(_, _, _)
decode_symbol_loop(tree, d, current) ==
    LET node == tree.nodes[current + 1]
    IN  IF node.right # None \/ node.left # None
        THEN LET r == next_bit(d)
                 child == IF r.val # 0 THEN node.right ELSE node.left
             IN  IF ~r.ok THEN [st |-> "abort", val |-> None, d |-> r.d]
                 ELSE IF child = None THEN [st |-> "TreeError", val |-> None, d |-> r.d]
                 ELSE decode_symbol_loop(tree, r.d, child)
        ELSE IF node.symbol = None THEN [st |-> "TreeError", val |-> None, d |-> d]
        ELSE [st |-> "ok", val |-> node.symbol, d |-> d]

\* decode_symbol gone wrong: a missing child is unwrapped, not turned into an error
decode_symbol_unwrap(tree, d) ==
    LET r == decode_symbol_loop(tree, d, 0)
    IN  IF r.st = "TreeError" /\ (tree.nodes[1].left # None \/ tree.nodes[1].right # None)
        THEN [r EXCEPT !.st = "abort"]
        ELSE r

decode_symbol(tree, d) == decode_symbol_loop(tree, d, 0)

\* range gone wrong: the alphabet starts one too high
range_from_next(lo, hi) == [i \in 1..(hi - lo) |-> lo + i]

\* the sequence lo, lo + 1, ..., hi - 1 (a Rust range collected)
range(lo, hi) == [i \in 1..(hi - lo) |-> lo + i - 1]

\* static_literal_bitlengths gone wrong: the first range one symbol short
static_literal_bitlengths_short ==
    [k \in 1..288 |-> LET i == k - 1
                      IN  IF i < 143 THEN 8 ELSE IF i < 256 THEN 9
                          ELSE IF i < 280 THEN 7 ELSE 8]

\* the bit-length table of the fixed literal/length tree
static_literal_bitlengths ==
    [k \in 1..288 |-> LET i == k - 1
                      IN  IF i < 144 THEN 8 ELSE IF i < 256 THEN 9
                          ELSE IF i < 280 THEN 7 ELSE 8]

static_literal_tree == from_bitlengths(static_literal_bitlengths, range(0, 288))

static_distance_tree == from_bitlengths([i \in 1..30 |-> 5], range(0, 30))

-----------------------------------------------------------------------------
(* The values of `result` *)

Running == [tag |-> "running", err |-> "", output |-> <<>>]
Ok(o) == [tag |-> "Ok", err |-> "", output |-> o]
Err(kind) == [tag |-> "Err", err |-> kind, output |-> <<>>]
Aborted == [tag |-> "abort", err |-> "", output |-> <<>>]

NoTree == [nodes |-> <<>>, next_free_node |-> 0]
NoDecoder == from_bytes(<<>>)

\* the locals of read_trees and of decode_length_distance_pairs, out of scope
TreeLocalsIdle ==
    /\ hlit = 0 /\ hdist = 0 /\ hclen = 0
    /\ code_length_tree = NoTree /\ bitlengths = <<>> /\ bitlengths_count = 0

\* the call ends: with a Result, or by a panic
return(r) ==
    /\ pc' = "done"
    /\ result' = r

-----------------------------------------------------------------------------
(* decompress_zlib and decompress *)

\* skip_dict gone wrong: the flag read from bit 4
skip_dict_bit4(data) ==
    LET flg == data[2]
        fdict == (flg \div 16) % 2
    IN  2 + fdict * 4

\* skip_dict gone wrong: a dictionary id skipped whenever FLG is 32 or more
skip_dict_high_flag(data) ==
    LET flg == data[2]
    IN  IF flg >= 32 THEN 6 ELSE 2

\* skip_dict of decompress_zlib
skip_dict(data) ==
    LET flg == data[2]
        fdict == (flg \div 32) % 2
    IN  2 + fdict * 4

decompress_zlib_call ==
    /\ pc = "call" /\ entry = "decompress_zlib"
    /\ IF Len(input) < 2 \/ Len(input) < 4 \/ skip_dict(input) > Len(input) - 4
       THEN return(Aborted) /\ UNCHANGED decoder
       ELSE /\ decoder' = from_bytes(SubSeq(input, skip_dict(input) + 1, Len(input) - 4))
            /\ pc' = "block"
            /\ UNCHANGED result
    /\ UNCHANGED <<arg, ret, entry, input, shape, plain, output, blocks, bfinal, btype, len,
                   hlit, hdist, hclen, code_length_tree, bitlengths, bitlengths_count,
                   literal_tree, distance_tree, iterations, symbol, length, distance>>

decompress_call ==
    /\ pc = "call" /\ entry = "decompress"
    /\ decoder' = from_bytes(input)
    /\ pc' = "block"
    /\ UNCHANGED <<arg, ret, entry, input, shape, plain, output, blocks, bfinal, btype, len,
                   hlit, hdist, hclen, code_length_tree, bitlengths, bitlengths_count,
                   literal_tree, distance_tree, iterations, symbol, length, distance,
                   result>>

\* block_branch gone wrong: no error branch
block_branch_no_error(t) ==
    IF t = 0 THEN "read_uncompressed"
    ELSE IF t = 1 THEN "huffman_static"
    ELSE "read_trees"

\* the branch of lines 19-27 on btype: the block decoder called, or the error
block_branch(t) ==
    IF t = 0 THEN "read_uncompressed"
    ELSE IF t = 1 THEN "huffman_static"
    ELSE IF t = 2 THEN "read_trees"
    ELSE "IllegalBlockFormat"

\* the head of one iteration of the block loop: the header bits and the branch
block_header ==
    /\ pc = "block"
    /\ LET f == next_bits(decoder, 1)
           t == next_bits(f.d, 2)
       IN  /\ blocks' = blocks + 1
           /\ IF ~f.ok \/ ~t.ok
              THEN return(Aborted) /\ UNCHANGED <<decoder, bfinal, btype>>
              ELSE /\ decoder' = t.d
                   /\ bfinal' = f.val
                   /\ btype' = t.val
                   /\ IF block_branch(t.val) = "IllegalBlockFormat"
                      THEN return(Err("IllegalBlockFormat"))
                      ELSE pc' = block_branch(t.val) /\ UNCHANGED result
    /\ UNCHANGED <<arg, ret, entry, input, shape, plain, output, len,
                   hlit, hdist, hclen, code_length_tree, bitlengths, bitlengths_count,
                   literal_tree, distance_tree, iterations, symbol, length, distance>>

\* the tail of one iteration of the block loop: the block returned Ok(())
block_end ==
    /\ pc = "block_end"
    /\ IF bfinal # 0 \/ blocks >= LARGE_ITERATION_COUNT
       THEN return(Ok(output))
       ELSE pc' = "block" /\ UNCHANGED result
    /\ UNCHANGED <<arg, ret, entry, input, shape, plain, decoder, output, blocks, bfinal, btype,
                   len, hlit, hdist, hclen, code_length_tree, bitlengths,
                   bitlengths_count, literal_tree, distance_tree, iterations, symbol,
                   length, distance>>

-----------------------------------------------------------------------------
(* read_uncompressed *)

\* not_u16 gone wrong: the complement of the low byte only
not_u8(n) == 255 - (n % 256)

\* !nlen on a u16
not_u16(n) == 65535 - n

\* lines 45-51: the two length fields and their check
read_uncompressed_len ==
    /\ pc = "read_uncompressed"
    /\ LET l == next_bytes_as_number(decoder, 2)
           nl == next_bytes_as_number(l.d, 2)
       IN  IF ~l.ok \/ ~nl.ok
           THEN return(Aborted) /\ UNCHANGED <<decoder, len>>
           ELSE /\ decoder' = nl.d
                /\ len' = l.val % 65536
                /\ IF l.val % 65536 # not_u16(nl.val % 65536)
                   THEN return(Err("UncompressedLengthMismatch"))
                   ELSE pc' = "read_uncompressed_copy" /\ UNCHANGED result
    /\ UNCHANGED <<arg, ret, entry, input, shape, plain, output, blocks, bfinal, btype,
                   hlit, hdist, hclen, code_length_tree, bitlengths, bitlengths_count,
                   literal_tree, distance_tree, iterations, symbol, length, distance>>

\* the loop of lines 53-55 with n iterations left: [ok, val, d], val the output
RECURSIVE push_bytes(_, _, _)
push_bytes(d, out, n) ==
    IF n = 0 THEN [ok |-> TRUE, val |-> out, d |-> d]
    ELSE LET r == next_byte(d)
         IN  IF ~r.ok THEN [ok |-> FALSE, val |-> out, d |-> r.d]
             ELSE push_bytes(r.d, Append(out, r.val), n - 1)

\* copy_uncompressed gone wrong: the output starts afresh from the slice
copy_uncompressed_fresh(d, out, n) ==
    LET s == next_bytes_as_slice(d, n)
    IN  IF ~s.ok THEN [ok |-> FALSE, val |-> out, d |-> s.d]
        ELSE push_bytes(s.d, s.val, n)

\* lines 52-56: what read_uncompressed appends to the output: [ok, val, d]
copy_uncompressed(d, out, n) ==
    LET s == next_bytes_as_slice(d, n)
    IN  IF ~s.ok THEN [ok |-> FALSE, val |-> out, d |-> s.d]
        ELSE push_bytes(s.d, out \o s.val, n)

read_uncompressed_copy ==
    /\ pc = "read_uncompressed_copy"
    /\ LET c == copy_uncompressed(decoder, output, len)
       IN  IF ~c.ok
           THEN return(Aborted) /\ UNCHANGED <<decoder, output>>
           ELSE /\ decoder' = c.d
                /\ output' = c.val
                /\ pc' = "block_end"
                /\ UNCHANGED result
    /\ UNCHANGED <<arg, ret, entry, input, shape, plain, blocks, bfinal, btype, len,
                   hlit, hdist, hclen, code_length_tree, bitlengths, bitlengths_count,
                   literal_tree, distance_tree, iterations, symbol, length, distance>>

-----------------------------------------------------------------------------
(* decompress_huffman_static and read_trees *)

\* lines 65-83: the two fixed trees
decompress_huffman_static ==
    /\ pc = "huffman_static"
    /\ literal_tree' = static_literal_tree
    /\ distance_tree' = static_distance_tree
    /\ iterations' = 0
    /\ pc' = "symbols"
    /\ UNCHANGED <<arg, ret, entry, input, shape, plain, decoder, output, blocks, bfinal, btype,
                   len, hlit, hdist, hclen, code_length_tree, bitlengths,
                   bitlengths_count, symbol, length, distance, result>>

\* read_code_length_lengths gone wrong: value i stored in slot i
RECURSIVE read_code_length_lengths_in_order(_, _, _, _)
read_code_length_lengths_in_order(d, n, i, lengths) ==
    IF i >= n THEN [ok |-> TRUE, val |-> lengths, d |-> d]
    ELSE LET r == next_bits(d, 3)
         IN  IF ~r.ok \/ i >= 19
             THEN [ok |-> FALSE, val |-> lengths, d |-> r.d]
             ELSE read_code_length_lengths_in_order(r.d, n, i + 1,
                                                    [lengths EXCEPT ![i + 1] = r.val])

\* the loop of lines 105-108 from iteration i on: [ok, val, d], val the array
\* code_length_tree_bitlengths (entry k at val[k + 1])
RECURSIVE read_code_length_lengths(_, _, _, _)
read_code_length_lengths(d, n, i, lengths) ==
    IF i >= n THEN [ok |-> TRUE, val |-> lengths, d |-> d]
    ELSE LET r == next_bits(d, 3)
         IN  IF ~r.ok \/ i >= Len(TABLE_CODE_LENGTH_ORDER)
             THEN [ok |-> FALSE, val |-> lengths, d |-> r.d]
             ELSE read_code_length_lengths(r.d, n, i + 1,
                      [lengths EXCEPT ![TABLE_CODE_LENGTH_ORDER[i + 1] + 1] = r.val])

\* lines 99-115: the three counts, the code-length tree, the empty array
read_trees_header ==
    /\ pc = "read_trees"
    /\ LET a == next_bits(decoder, 5)
           b == next_bits(a.d, 5)
           c == next_bits(b.d, 4)
           l == read_code_length_lengths(c.d, c.val + 4, 0, [k \in 1..19 |-> 0])
       IN  IF ~a.ok \/ ~b.ok \/ ~c.ok \/ ~l.ok
           THEN /\ return(Aborted)
                /\ UNCHANGED <<decoder, hlit, hdist, hclen, code_length_tree,
                               bitlengths, bitlengths_count>>
           ELSE /\ decoder' = l.d
                /\ hlit' = a.val + 257
                /\ hdist' = b.val + 1
                /\ hclen' = c.val + 4
                /\ code_length_tree' = from_bitlengths(l.val, range(0, 19))
                /\ bitlengths' = [k \in 1..ARRAY_LEN |-> 0]
                /\ bitlengths_count' = 0
                /\ pc' = "code_lengths"
                /\ UNCHANGED result
    /\ UNCHANGED <<arg, ret, entry, input, shape, plain, output, blocks, bfinal, btype, len,
                   literal_tree, distance_tree, iterations, symbol, length, distance>>

\* fill gone wrong: the repeated entries are zeros
fill_zero(bl, from, n, v) ==
    [k \in 1..Len(bl) |-> IF from + 1 <= k /\ k <= from + n THEN 0 ELSE bl[k]]

\* bl with the entries from .. from + n - 1 (0-based) set to v
fill(bl, from, n, v) ==
    [k \in 1..Len(bl) |-> IF from + 1 <= k /\ k <= from + n THEN v ELSE bl[k]]

\* one iteration of the loop of lines 116-137: [st, bl, count, d]
read_code_length(tree, d, bl, count) ==
    LET r == decode_symbol(tree, d)
        fail(st, dd) == [st |-> st, bl |-> bl, count |-> count, d |-> dd]
    IN  IF r.st # "ok" THEN fail(r.st, r.d)
        ELSE IF r.val <= 15
        THEN IF count >= ARRAY_LEN THEN fail("abort", r.d)
             ELSE [st |-> "ok", bl |-> [bl EXCEPT ![count + 1] = r.val],
                   count |-> count + 1, d |-> r.d]
        ELSE IF r.val = 16
        THEN IF count - 1 < 0 THEN fail("abort", r.d)
             ELSE LET prev == bl[count]
                      n == next_bits(r.d, 2)
                  IN  IF ~n.ok \/ count + n.val + 3 > ARRAY_LEN THEN fail("abort", n.d)
                      ELSE [st |-> "ok", bl |-> fill(bl, count, n.val + 3, prev),
                            count |-> count + n.val + 3, d |-> n.d]
        ELSE IF r.val = 17
        THEN LET n == next_bits(r.d, 3)
             IN  IF ~n.ok THEN fail("abort", n.d)
                 ELSE [st |-> "ok", bl |-> bl, count |-> count + n.val + 3, d |-> n.d]
        ELSE IF r.val = 18
        THEN LET n == next_bits(r.d, 7)
             IN  IF ~n.ok THEN fail("abort", n.d)
                 ELSE [st |-> "ok", bl |-> bl, count |-> count + n.val + 11, d |-> n.d]
        ELSE fail("IllegalSmallTree", r.d)

read_trees_symbol ==
    /\ pc = "code_lengths"
    /\ bitlengths_count < hlit + hdist
    /\ LET r == read_code_length(code_length_tree, decoder, bitlengths, bitlengths_count)
       IN  IF r.st = "ok"
           THEN /\ decoder' = r.d
                /\ bitlengths' = r.bl
                /\ bitlengths_count' = r.count
                /\ UNCHANGED <<pc, result>>
           ELSE /\ return(IF r.st = "abort" THEN Aborted ELSE Err(r.st))
                /\ UNCHANGED <<decoder, bitlengths, bitlengths_count>>
    /\ UNCHANGED <<arg, ret, entry, input, shape, plain, output, blocks, bfinal, btype, len,
                   hlit, hdist, hclen, code_length_tree, literal_tree, distance_tree,
                   iterations, symbol, length, distance>>

\* bitlengths[from .. to] of the source (0-based, to excluded) as a sequence
slice(bl, from, to) == [k \in 1..(to - from) |-> bl[from + k]]

\* lines 139-148: the two trees of the block, then the call of line 93
read_trees_build ==
    /\ pc = "code_lengths"
    /\ ~(bitlengths_count < hlit + hdist)
    /\ IF hlit + 30 > Len(bitlengths)
       THEN return(Aborted) /\ UNCHANGED <<literal_tree, distance_tree, iterations>>
       ELSE /\ literal_tree' = from_bitlengths(slice(bitlengths, 0, hlit), range(0, 286))
            /\ distance_tree' =
                   from_bitlengths(slice(bitlengths, hlit, hlit + 30), range(0, 30))
            /\ iterations' = 0
            /\ pc' = "symbols"
            /\ UNCHANGED result
    /\ UNCHANGED <<arg, ret, entry, input, shape, plain, decoder, output, blocks, bfinal, btype,
                   len, hlit, hdist, hclen, code_length_tree, bitlengths,
                   bitlengths_count, symbol, length, distance>>

-----------------------------------------------------------------------------
(* decode_length_distance_pairs *)

\* copy_bytes gone wrong: one bulk copy of the bytes that exist before the copy
copy_bytes_bulk(out, dist, n) ==
    IF Len(out) - dist < 0 THEN [ok |-> FALSE, val |-> out]
    ELSE [ok |-> TRUE,
          val |-> out \o SubSeq(out, Len(out) - dist + 1,
                                IF n < dist THEN Len(out) - dist + n ELSE Len(out))]

\* the loop of lines 171-174 with n iterations left, each appending the byte
\* `dist` places before the end: [ok, val].  The iterations are split in halves
\* and the first half is evaluated (its test always holds) before the second.
RECURSIVE copy_bytes(_, _, _)
copy_bytes(out, dist, n) ==
    IF n <= 0 THEN [ok |-> TRUE, val |-> out]
    ELSE IF n = 1
    THEN IF Len(out) - dist < 0 \/ Len(out) - dist >= Len(out)
         THEN [ok |-> FALSE, val |-> out]
         ELSE [ok |-> TRUE, val |-> Append(out, out[Len(out) - dist + 1])]
    ELSE LET half == copy_bytes(out, dist, n \div 2)
         IN  IF ~half.ok THEN half
             ELSE copy_bytes(half.val, dist, n - (n \div 2))

\* lines 165-174, the branch of a symbol above 256: [st, out, d, length, distance]
length_distance_pair(sym, distances, d, out) ==
    LET special_symbol == sym - 257
        fail(st, dd) == [st |-> st, out |-> out, d |-> dd, length |-> 0, distance |-> 0]
    IN  IF special_symbol >= Len(TABLE_LENGTH_EXTRA_BITS) THEN fail("abort", d)
        ELSE
        LET e == next_bits(d, TABLE_LENGTH_EXTRA_BITS[special_symbol + 1])
            l == e.val + TABLE_LENGTH_BASE[special_symbol + 1]
            ds == decode_symbol(distances, e.d)
        IN  IF ~e.ok THEN fail("abort", e.d)
            ELSE IF ds.st # "ok" THEN fail(ds.st, ds.d)
            ELSE IF ds.val >= Len(TABLE_DISTANCE_EXTRA_BITS) THEN fail("abort", ds.d)
            ELSE
            LET x == next_bits(ds.d, TABLE_DISTANCE_EXTRA_BITS[ds.val + 1])
                dist == x.val + TABLE_DISTANCE_BASE[ds.val + 1]
                c == copy_bytes(out, dist, l)
            IN  IF ~x.ok THEN fail("abort", x.d)
                ELSE IF ~c.ok THEN fail("abort", x.d)
                ELSE [st |-> "ok", out |-> c.val, d |-> x.d,
                      length |-> l, distance |-> dist]

\* one iteration of the loop of lines 158-176
decode_step ==
    /\ pc = "symbols"
    /\ IF iterations >= LARGE_ITERATION_COUNT
       THEN /\ pc' = "block_end"
            /\ UNCHANGED <<decoder, output, iterations, symbol, length, distance, result>>
       ELSE
       LET r == decode_symbol(literal_tree, decoder)
       IN  /\ iterations' = iterations + 1
           /\ IF r.st # "ok"
              THEN /\ return(IF r.st = "abort" THEN Aborted ELSE Err(r.st))
                   /\ UNCHANGED <<decoder, output, symbol, length, distance>>
              ELSE IF r.val <= 255
              THEN /\ output' = Append(output, r.val)
                   /\ decoder' = r.d
                   /\ symbol' = r.val
                   /\ UNCHANGED <<pc, length, distance, result>>
              ELSE IF r.val = 256
              THEN /\ pc' = "block_end"
                   /\ decoder' = r.d
                   /\ symbol' = r.val
                   /\ UNCHANGED <<output, length, distance, result>>
              ELSE LET p == length_distance_pair(r.val, distance_tree, r.d, output)
                   IN  IF p.st # "ok"
                       THEN /\ return(IF p.st = "abort" THEN Aborted ELSE Err(p.st))
                            /\ UNCHANGED <<decoder, output, symbol, length, distance>>
                       ELSE /\ output' = p.out
                            /\ decoder' = p.d
                            /\ symbol' = r.val
                            /\ length' = p.length
                            /\ distance' = p.distance
                            /\ UNCHANGED <<pc, result>>
    /\ UNCHANGED <<arg, ret, entry, input, shape, plain, blocks, bfinal, btype, len,
                   hlit, hdist, hclen, code_length_tree, bitlengths, bitlengths_count,
                   literal_tree, distance_tree>>

-----------------------------------------------------------------------------
(* The inputs: streams written by a reference encoder that follows RFC 1951 *)
(* and RFC 1950 (stored, fixed and dynamic blocks, the zlib envelope),      *)
(* damaged streams, and every short buffer over a few byte values.          *)

MaxPlainLen == 2     \* bytes in a stored block and in a run of fixed literals
MaxTokens == 2       \* literal and copy tokens in a fixed block
MaxRawLen == 3       \* bytes of an arbitrary buffer

SeqsUpTo(S, n) == UNION {[1..k -> S] : k \in 0..n}

\* the n low bits of v, least significant first (a field of the format)
lsb(v, n) == [i \in 1..n |-> (v \div (2 ^ (i - 1))) % 2]

\* the n bits of a Huffman code, most significant first
msb(code, n) == [i \in 1..n |-> (code \div (2 ^ (n - i))) % 2]

zeros(n) == [i \in 1..n |-> 0]

\* the bits of a run of bytes, each byte least significant bit first
bytes_bits(bytes) ==
    [i \in 1..(8 * Len(bytes)) |-> (bytes[((i - 1) \div 8) + 1] \div (2 ^ ((i - 1) % 8))) % 2]

\* a bit stream as bytes, the last byte filled with zero bits
pack(bits) ==
    [k \in 1..((Len(bits) + 7) \div 8) |->
        LET b(j) == IF 8 * (k - 1) + j + 1 <= Len(bits) THEN bits[8 * (k - 1) + j + 1] ELSE 0
        IN  b(0) + 2 * b(1) + 4 * b(2) + 8 * b(3) + 16 * b(4) + 32 * b(5)
            + 64 * b(6) + 128 * b(7)]

RECURSIVE flatten(_)
flatten(ss) == IF ss = <<>> THEN <<>> ELSE Head(ss) \o flatten(Tail(ss))

\* tokens of a Huffman block
Lit(v) == [t |-> "lit", v |-> v, length |-> 0, distance |-> 0]
Copy(l, d) == [t |-> "copy", v |-> 0, length |-> l, distance |-> d]

\* the length symbol (minus 257) and the distance symbol of RFC 1951, 3.2.5
RefLengthSymbol(l) ==
    CHOOSE k \in 0..28 : TABLE_LENGTH_BASE[k + 1] <= l
                         /\ (k = 28 \/ l < TABLE_LENGTH_BASE[k + 2])
RefDistanceSymbol(d) ==
    CHOOSE k \in 0..29 : TABLE_DISTANCE_BASE[k + 1] <= d
                         /\ (k = 29 \/ d < TABLE_DISTANCE_BASE[k + 2])

\* the bits of a token, given the bits of a literal/length and a distance symbol
TokenBits(tok, LitBits(_), DistBits(_)) ==
    IF tok.t = "lit" THEN LitBits(tok.v)
    ELSE LET ls == RefLengthSymbol(tok.length)
             ds == RefDistanceSymbol(tok.distance)
         IN  LitBits(257 + ls)
             \o lsb(tok.length - TABLE_LENGTH_BASE[ls + 1], TABLE_LENGTH_EXTRA_BITS[ls + 1])
             \o DistBits(ds)
             \o lsb(tok.distance - TABLE_DISTANCE_BASE[ds + 1],
                    TABLE_DISTANCE_EXTRA_BITS[ds + 1])

\* the fixed codes of RFC 1951, 3.2.6
RefFixedLitBits(sym) ==
    IF sym <= 143 THEN msb(48 + sym, 8)
    ELSE IF sym <= 255 THEN msb(400 + (sym - 144), 9)
    ELSE IF sym <= 279 THEN msb(sym - 256, 7)
    ELSE msb(192 + (sym - 280), 8)
RefFixedDistBits(sym) == msb(sym, 5)

\* the bytes a token sequence stands for; Len(out) < distance marks no text
RECURSIVE RefInflate(_, _)
RefInflate(tokens, out) ==
    IF tokens = <<>> THEN out
    ELSE LET tok == Head(tokens)
         IN  IF tok.t = "lit" THEN RefInflate(Tail(tokens), Append(out, tok.v))
             ELSE RefInflate(Tail(tokens),
                      [i \in 1..(Len(out) + tok.length) |->
                          IF i <= Len(out) THEN out[i]
                          ELSE out[Len(out) - tok.distance + 1
                                   + ((i - Len(out) - 1) % tok.distance)]])

\* every copy of the token sequence reaches back into text that exists
RECURSIVE TokensValid(_, _)
TokensValid(tokens, n) ==
    \/ tokens = <<>>
    \/ /\ Head(tokens).t = "lit"
       /\ TokensValid(Tail(tokens), n + 1)
    \/ /\ Head(tokens).t = "copy"
       /\ Head(tokens).distance <= n
       /\ TokensValid(Tail(tokens), n + Head(tokens).length)

\* blocks appended to the bits `pre` of the stream before them
EncHeader(final, type) == <<final>> \o lsb(type, 2)

EncStored(pre, final, bytes, nlen) ==
    LET h == pre \o EncHeader(final, 0)
    IN  h \o zeros((8 - (Len(h) % 8)) % 8) \o lsb(Len(bytes), 16) \o lsb(nlen, 16)
          \o bytes_bits(bytes)

EncFixed(pre, final, tokens) ==
    pre \o EncHeader(final, 1)
        \o flatten([i \in 1..Len(tokens) |->
                       TokenBits(tokens[i], RefFixedLitBits, RefFixedDistBits)])
        \o RefFixedLitBits(256)


\* the canonical code of RFC 1951, 3.2.2, for the lengths `lengths` (symbol k at
\* lengths[k + 1])
RefBlCount(lengths, n) ==
    IF n = 0 THEN 0 ELSE Cardinality({j \in 1..Len(lengths) : lengths[j] = n})

RECURSIVE RefNextCode(_, _)
RefNextCode(lengths, bits) ==
    IF bits = 0 THEN 0
    ELSE (RefNextCode(lengths, bits - 1) + RefBlCount(lengths, bits - 1)) * 2

RefCode(lengths, sym) ==
    RefNextCode(lengths, lengths[sym + 1])
        + Cardinality({j \in 1..sym : lengths[j] = lengths[sym + 1]})

RefSymBits(lengths, sym) == msb(RefCode(lengths, sym), lengths[sym + 1])

\* the bit lengths a sequence of code-length symbols <<symbol, extra>> stands
\* for (RFC 1951, 3.2.7)
RECURSIVE RefExpand(_, _)
RefExpand(cl_syms, out) ==
    IF cl_syms = <<>> THEN out
    ELSE LET sym == Head(cl_syms)[1]
             extra == Head(cl_syms)[2]
             prev == IF out = <<>> THEN 0 ELSE out[Len(out)]
         IN  RefExpand(Tail(cl_syms),
                 IF sym <= 15 THEN Append(out, sym)
                 ELSE IF sym = 16 THEN out \o [i \in 1..(extra + 3) |-> prev]
                 ELSE IF sym = 17 THEN out \o zeros(extra + 3)
                 ELSE out \o zeros(extra + 11))

RefExtraBits(sym) == IF sym = 16 THEN 2 ELSE IF sym = 17 THEN 3 ELSE IF sym = 18 THEN 7 ELSE 0

\* the 19 code-length code lengths with the lengths f of the symbols used
CodeLengthLengths(f) == [k \in 1..19 |-> IF (k - 1) \in DOMAIN f THEN f[k - 1] ELSE 0]

\* a dynamic block: dyn = [hlit, hdist, ncl, cl_lengths, cl_syms, body, tokens],
\* hlit and hdist the header fields, ncl the number of code-length code lengths
\* sent, body whether symbols and an end of block follow the tables
EncDynamic(pre, final, dyn) ==
    LET all == RefExpand(dyn.cl_syms, <<>>)
        lit == SubSeq(all, 1, dyn.hlit + 257)
        dist == SubSeq(all, dyn.hlit + 258, dyn.hlit + dyn.hdist + 258)
        LitBits(sym) == RefSymBits(lit, sym)
        DistBits(sym) == RefSymBits(dist, sym)
    IN  pre \o EncHeader(final, 2)
            \o lsb(dyn.hlit, 5) \o lsb(dyn.hdist, 5) \o lsb(dyn.ncl - 4, 4)
            \o flatten([i \in 1..dyn.ncl |->
                           lsb(dyn.cl_lengths[TABLE_CODE_LENGTH_ORDER[i] + 1], 3)])
            \o flatten([i \in 1..Len(dyn.cl_syms) |->
                           RefSymBits(dyn.cl_lengths, dyn.cl_syms[i][1])
                           \o lsb(dyn.cl_syms[i][2], RefExtraBits(dyn.cl_syms[i][1]))])
            \o (IF dyn.body
                THEN flatten([i \in 1..Len(dyn.tokens) |->
                                 TokenBits(dyn.tokens[i], LitBits, DistBits)])
                     \o LitBits(256)
                ELSE <<>>)

\* literals a (1 bit), end of block and length 3 (2 bits), distance 1: "aaaa"
DynCopy ==
    [hlit |-> 1, hdist |-> 0, ncl |-> 18,
     cl_lengths |-> CodeLengthLengths(18 :> 1 @@ 1 :> 2 @@ 2 :> 2),
     cl_syms |-> <<<<18, 86>>, <<1, 0>>, <<18, 127>>, <<18, 9>>, <<2, 0>>, <<2, 0>>,
                   <<1, 0>>>>,
     body |-> TRUE, tokens |-> <<Lit(97), Copy(3, 1)>>]

\* the repeat codes 16, 17 and 18: literals a, b, c, d of 3 bits, no distances
DynRepeat ==
    [hlit |-> 0, hdist |-> 0, ncl |-> 18,
     cl_lengths |-> CodeLengthLengths(18 :> 2 @@ 3 :> 2 @@ 16 :> 3 @@ 17 :> 3
                                      @@ 0 :> 3 @@ 1 :> 3),
     cl_syms |-> <<<<18, 76>>, <<17, 7>>, <<3, 0>>, <<16, 0>>, <<18, 127>>, <<18, 6>>,
                   <<1, 0>>, <<0, 0>>>>,
     body |-> TRUE, tokens |-> <<Lit(97), Lit(100)>>]

\* symbol 18 with extra bits 4: a run of exactly 15 zero lengths
DynZeros ==
    [hlit |-> 0, hdist |-> 0, ncl |-> 18,
     cl_lengths |-> CodeLengthLengths(18 :> 1 @@ 1 :> 1),
     cl_syms |-> <<<<18, 4>>, <<18, 71>>, <<1, 0>>, <<18, 127>>, <<18, 9>>, <<1, 0>>,
                   <<1, 0>>>>,
     body |-> TRUE, tokens |-> <<Lit(97)>>]

\* a repeat code 16 that runs past the HLIT + HDIST + 258 lengths announced
DynOverrun ==
    [hlit |-> 0, hdist |-> 0, ncl |-> 18,
     cl_lengths |-> CodeLengthLengths(18 :> 1 @@ 1 :> 2 @@ 16 :> 2),
     cl_syms |-> <<<<18, 86>>, <<1, 0>>, <<18, 127>>, <<18, 9>>, <<1, 0>>, <<16, 0>>>>,
     body |-> TRUE, tokens |-> <<Lit(97)>>]

\* a repeat code 16 as the first code-length symbol
DynRepeatFirst ==
    [hlit |-> 0, hdist |-> 0, ncl |-> 4,
     cl_lengths |-> CodeLengthLengths(16 :> 1 @@ 18 :> 1),
     cl_syms |-> <<<<16, 0>>, <<18, 127>>, <<18, 108>>>>,
     body |-> FALSE, tokens |-> <<>>]

\* over-subscribed code-length code lengths: symbols 0 and 16 of 1 bit and
\* symbol 17 of 2 bits
DynOversubscribed ==
    [hlit |-> 0, hdist |-> 0, ncl |-> 4,
     cl_lengths |-> CodeLengthLengths(0 :> 1 @@ 16 :> 1 @@ 17 :> 2),
     cl_syms |-> <<>>, body |-> FALSE, tokens |-> <<>>]

\* over-subscribed literal/length lengths: symbols 0 and 1 of 1 bit and symbol
\* 2 of 2 bits
DynOversubscribedLiterals ==
    [hlit |-> 0, hdist |-> 0, ncl |-> 18,
     cl_lengths |-> CodeLengthLengths(18 :> 1 @@ 1 :> 2 @@ 2 :> 2),
     cl_syms |-> <<<<1, 0>>, <<1, 0>>, <<2, 0>>, <<18, 127>>, <<18, 106>>>>,
     body |-> FALSE, tokens |-> <<>>]


PlainBytes == {97, 98}
FixedLiterals == {0, 97, 143}
TokenSet == {Lit(97), Lit(200), Copy(3, 1), Copy(4, 1), Copy(3, 2)}
RawBytes == {0, 1, 2, 3, 5, 7, 97, 255}

Case(e, data, sh, text) == [entry |-> e, data |-> data, shape |-> sh, plain |-> text]

\* one final stored block
StoredCases ==
    {Case("decompress", pack(EncStored(<<>>, 1, x, 65535 - Len(x))), "stored", x) :
        x \in SeqsUpTo(PlainBytes, MaxPlainLen)}

\* one final fixed block of literals 0 .. 143
FixedLiteralCases ==
    {Case("decompress", pack(EncFixed(<<>>, 1, [i \in 1..Len(x) |-> Lit(x[i])])),
          "fixed_literals", x) :
        x \in SeqsUpTo(FixedLiterals, MaxPlainLen)}

\* one final fixed block of literals and copies
FixedCases ==
    {Case("decompress", pack(EncFixed(<<>>, 1, ts)),
          IF TokensValid(ts, 0) THEN "fixed" ELSE "malformed",
          IF TokensValid(ts, 0) THEN RefInflate(ts, <<>>) ELSE <<>>) :
        ts \in SeqsUpTo(TokenSet, MaxTokens) \cup {<<Lit(97), Copy(4, 1)>>}}

\* one final dynamic block
DynamicCases ==
    {Case("decompress", pack(EncDynamic(<<>>, 1, dyn)), "dynamic",
          RefInflate(dyn.tokens, <<>>)) : dyn \in {DynCopy, DynRepeat, DynZeros}}
    \cup {Case("decompress", pack(EncDynamic(<<>>, 1, dyn)), "malformed", <<>>) :
             dyn \in {DynOverrun, DynRepeatFirst, DynOversubscribed,
                      DynOversubscribedLiterals}}

\* blocks of streams of two blocks: [type, bytes, nlen, tokens, dyn]
StoredBlock(x) == [type |-> "stored", bytes |-> x, nlen |-> 65535 - Len(x),
                   tokens |-> <<>>, dyn |-> DynZeros]
BadStoredBlock(x, n) == [type |-> "bad_stored", bytes |-> x, nlen |-> n,
                         tokens |-> <<>>, dyn |-> DynZeros]
FixedBlock(ts) == [type |-> "fixed", bytes |-> <<>>, nlen |-> 0, tokens |-> ts,
                   dyn |-> DynZeros]
DynamicBlock(dyn) == [type |-> "dynamic", bytes |-> <<>>, nlen |-> 0,
                      tokens |-> dyn.tokens, dyn |-> dyn]
ReservedBlock == [type |-> "reserved", bytes |-> <<>>, nlen |-> 0, tokens |-> <<>>,
                  dyn |-> DynZeros]

EncBlock(pre, final, blk) ==
    IF blk.type \in {"stored", "bad_stored"} THEN EncStored(pre, final, blk.bytes, blk.nlen)
    ELSE IF blk.type = "fixed" THEN EncFixed(pre, final, blk.tokens)
    ELSE IF blk.type = "dynamic" THEN EncDynamic(pre, final, blk.dyn)
    ELSE pre \o EncHeader(final, 3)

\* the text of a block that follows the text `out`
BlockText(blk, out) ==
    IF blk.type = "stored" THEN out \o blk.bytes ELSE RefInflate(blk.tokens, out)

WellFormedBlock(blk, n) ==
    /\ blk.type \in {"stored", "fixed", "dynamic"}
    /\ TokensValid(blk.tokens, n)

BadStoredBlocks ==
    {BadStoredBlock(<<>>, 0), BadStoredBlock(<<97>>, 0), BadStoredBlock(<<97>>, 1),
     BadStoredBlock(<<97>>, 254), BadStoredBlock(<<97>>, 65535)}

FirstBlocks ==
    {StoredBlock(<<>>), StoredBlock(<<97>>), FixedBlock(<<>>), FixedBlock(<<Lit(97)>>),
     DynamicBlock(DynZeros)}

SecondBlocks ==
    {StoredBlock(<<>>), StoredBlock(<<97, 98>>), FixedBlock(<<Lit(98)>>),
     FixedBlock(<<Copy(3, 1)>>), DynamicBlock(DynRepeat), ReservedBlock}
    \cup BadStoredBlocks

\* a block that is not final and a second block, final ("multi" when both are
\* well formed) or not ("no_final" when both are well formed)
TwoBlockCases ==
    {LET wf == WellFormedBlock(a, 0) /\ WellFormedBlock(b, Len(BlockText(a, <<>>)))
     IN  Case("decompress", pack(EncBlock(EncBlock(<<>>, 0, a), f, b)),
              IF ~wf THEN "malformed" ELSE IF f = 1 THEN "multi" ELSE "no_final",
              IF wf THEN BlockText(b, BlockText(a, <<>>)) ELSE <<>>) :
        a \in FirstBlocks, b \in SecondBlocks, f \in {0, 1}}

\* a single block that is damaged, or well formed and not final
OneBlockCases ==
    {Case("decompress", pack(EncBlock(<<>>, f, b)), "malformed", <<>>) :
        b \in BadStoredBlocks \cup {ReservedBlock}, f \in {0, 1}}
    \cup {Case("decompress", pack(EncBlock(<<>>, 0, a)), "no_final", BlockText(a, <<>>)) :
             a \in FirstBlocks}

\* the bytes that follow the final block in the streams of TrailingCases
TrailingBytes == <<98, 3>>

\* a well-formed stream of one or two blocks followed by TrailingBytes
TrailingCases ==
    {Case("decompress", pack(EncBlock(<<>>, 1, b)) \o TrailingBytes, "trailing",
          BlockText(b, <<>>)) :
        b \in {StoredBlock(<<>>), StoredBlock(<<97>>), StoredBlock(<<97, 98>>),
               FixedBlock(<<>>), FixedBlock(<<Lit(97), Copy(3, 1)>>),
               DynamicBlock(DynCopy)}}
    \cup {Case("decompress",
               pack(EncBlock(EncBlock(<<>>, 0, a), 1, b)) \o TrailingBytes, "trailing",
               BlockText(b, BlockText(a, <<>>))) :
             a \in {FixedBlock(<<Lit(97)>>), DynamicBlock(DynZeros)},
             b \in {FixedBlock(<<Lit(98)>>), FixedBlock(<<Copy(3, 1)>>),
                    DynamicBlock(DynRepeat)}}

\* one final fixed block that holds a literal/length symbol above 285, or a
\* length followed by one of the 5-bit distance codes 30 and 31
BadSymbolCases ==
    {Case("decompress",
          pack(EncFixed(<<>>, 0, <<>>) \o EncHeader(1, 1)
               \o flatten([i \in 1..Len(x) |-> RefFixedLitBits(x[i])])
               \o RefFixedLitBits(sym) \o RefFixedLitBits(256)),
          "bad_symbol", <<>>) :
        x \in SeqsUpTo({97}, 1), sym \in {286, 287}}
    \cup {Case("decompress",
               pack(EncHeader(1, 1) \o RefFixedLitBits(97) \o RefFixedLitBits(l)
                    \o RefFixedDistBits(ds) \o RefFixedLitBits(256)),
               "bad_symbol", <<>>) :
             l \in {257, 258, 285}, ds \in {30, 31}}

\* streams of Huffman blocks cut short
TruncatedCases ==
    UNION {{Case("decompress", SubSeq(data, 1, k), "truncated", <<>>) :
               k \in 0..(Len(data) - 1)} :
           data \in {pack(EncFixed(<<>>, 1, <<Lit(97), Lit(200)>>)),
                     pack(EncFixed(<<>>, 1, <<Lit(97), Copy(4, 1)>>)),
                     pack(EncDynamic(<<>>, 1, DynCopy)),
                     pack(EncDynamic(<<>>, 1, DynRepeat))}}

\* every short buffer, to both entry points
RawCases ==
    {Case(e, x, "raw", <<>>) :
        e \in {"decompress", "decompress_zlib"}, x \in SeqsUpTo(RawBytes, MaxRawLen)}

Hello == <<72, 101, 108, 108, 111, 44, 32, 72, 101, 108, 108, 111, 44, 32,
           72, 101, 108, 108, 111>>
HelloAdler == <<63, 168, 6, 117>>
\* what zlib writes for Hello with a fixed block (levels 1 to 9)
HelloDeflated == <<243, 72, 205, 201, 201, 215, 81, 240, 64, 162, 0>>

\* the zlib envelope of RFC 1950 around a payload
Zlib(cmf, flg, dictid, payload, check) == <<cmf, flg>> \o dictid \o payload \o check

\* zlib streams of Hello: level 0 (a stored block) and levels 1, 6 and 9
HelloCases ==
    {Case("decompress_zlib",
          Zlib(120, 1, <<>>, pack(EncStored(<<>>, 1, Hello, 65535 - Len(Hello))), HelloAdler),
          "zlib", Hello)}
    \cup {Case("decompress_zlib", Zlib(120, flg, <<>>, HelloDeflated, HelloAdler),
               "zlib", Hello) : flg \in {1, 156, 218}}

ZlibPayloads ==
    {<<>>,
     pack(EncStored(<<>>, 1, <<>>, 65535)),
     pack(EncStored(<<>>, 1, <<97>>, 65534)),
     pack(EncFixed(<<>>, 1, <<Lit(97), Copy(4, 1)>>))}

\* envelopes with and without FDICT, with any header and check bytes
ZlibCases ==
    {Case("decompress_zlib", Zlib(h[1], h[2], <<>>, payload, check), "zlib_other", <<>>) :
        h \in {<<120, 1>>, <<120, 156>>, <<0, 0>>, <<255, 223>>},
        payload \in ZlibPayloads, check \in {<<0, 0, 0, 0>>, HelloAdler}}
    \cup
    {Case("decompress_zlib", Zlib(h[1], h[2], dictid, payload, check), "zlib_other", <<>>) :
        h \in {<<120, 187>>, <<255, 255>>, <<0, 32>>},
        dictid \in {<<0, 0, 0, 0>>, <<1, 2, 3, 4>>},
        payload \in ZlibPayloads, check \in {<<0, 0, 0, 0>>, HelloAdler}}
    \cup
    {Case("decompress_zlib", SubSeq(<<120, 187, 1, 2, 3, 4, 3, 0, 0, 0, 0, 0>>, 1, k),
          "zlib_other", <<>>) : k \in 4..12}

InputCases ==
    StoredCases \cup FixedLiteralCases \cup FixedCases \cup DynamicCases
    \cup TwoBlockCases \cup OneBlockCases \cup TruncatedCases \cup RawCases
    \cup HelloCases \cup ZlibCases \cup TrailingCases \cup BadSymbolCases

\* the shapes written by a conformant encoder, whose text is `plain`
Conformant == shape \in {"stored", "fixed_literals", "fixed", "dynamic", "multi", "zlib"}

-----------------------------------------------------------------------------

Init ==
    /\ \E c \in InputCases :
          /\ entry = c.entry
          /\ input = c.data
          /\ shape = c.shape
          /\ plain = c.plain
    /\ pc = "call"
    /\ decoder = NoDecoder
    /\ output = <<>>
    /\ blocks = 0
    /\ bfinal = 0 /\ btype = 0
    /\ len = 0
    /\ hlit = 0 /\ hdist = 0 /\ hclen = 0
    /\ code_length_tree = NoTree
    /\ bitlengths = <<>>
    /\ bitlengths_count = 0
    /\ literal_tree = NoTree /\ distance_tree = NoTree
    /\ iterations = 0
    /\ symbol = 0 /\ length = 0 /\ distance = 0
    /\ result = Running
    /\ arg = 0 /\ ret = 0

Next ==
    \/ decompress_zlib_call
    \/ decompress_call
    \/ block_header
    \/ read_uncompressed_len
    \/ read_uncompressed_copy
    \/ decompress_huffman_static
    \/ read_trees_header
    \/ read_trees_symbol
    \/ read_trees_build
    \/ decode_step
    \/ block_end

Spec == Init /\ [][Next]_vars

-----------------------------------------------------------------------------
(* HuffmanTree on its own: from_bitlengths applied to every short array of  *)
(* bit lengths, over-subscribed and incomplete ones included, and then      *)
(* decode_symbol applied to the tree and a short bit stream, read from the  *)
(* start of a byte or across the end of one.                                *)

MaxBitLength == 3    \* the longest code
MaxAlphabet == 4     \* entries of the array of bit lengths

\* the code that from_bitlengths passes to insert for entry i of the array
code_of(bl, alphabet, i) ==
    from_bitlengths_loop(bl, alphabet, 0, i,
        [next_code |-> first_codes(bl), tree |-> new]).next_code[bl[i + 1] + 1]

\* no call of decompress is going on
NoCall ==
    /\ entry = "none" /\ input = <<>> /\ shape = "none" /\ plain = <<>>
    /\ output = <<>> /\ blocks = 0 /\ bfinal = 0 /\ btype = 0 /\ len = 0
    /\ hlit = 0 /\ hdist = 0 /\ hclen = 0
    /\ code_length_tree = NoTree /\ bitlengths_count = 0
    /\ distance_tree = NoTree /\ iterations = 0
    /\ symbol = 0 /\ length = 0 /\ distance = 0
    /\ result = Running

call_vars == <<entry, input, shape, plain, output, blocks, bfinal, btype, len,
               hlit, hdist, hclen, code_length_tree, bitlengths_count, distance_tree,
               iterations, symbol, length, distance, result>>

\* bit streams of MaxBitLength bits: at the start of a byte, and from bit 6 of
\* a byte on; and the empty buffer
TreeDecoders ==
    {from_bytes(<<>>)}
    \cup {from_bytes(<<b>>) : b \in 0..(2 ^ MaxBitLength - 1)}
    \cup {[data |-> <<64 * (b % 4), b \div 4>>, byte |-> 0, bit |-> 6] :
             b \in 0..(2 ^ MaxBitLength - 1)}

TreeInit ==
    /\ NoCall
    /\ bitlengths \in UNION {[1..k -> 0..MaxBitLength] : k \in 1..MaxAlphabet}
    /\ decoder \in TreeDecoders
    /\ literal_tree = NoTree
    /\ pc = "from_bitlengths"
    /\ arg = 0 /\ ret = 0

\* HuffmanTree::from_bitlengths(bitlengths, 0 .. bitlengths.len())
tree_from_bitlengths ==
    /\ pc = "from_bitlengths"
    /\ literal_tree' = from_bitlengths(bitlengths, range(0, Len(bitlengths)))
    /\ pc' = "decode_symbol"
    /\ UNCHANGED <<call_vars, bitlengths, decoder, arg, ret>>

\* tree.decode_symbol(decoder): ret is what it returns, or the panic
tree_decode_symbol ==
    /\ pc = "decode_symbol"
    /\ LET r == decode_symbol(literal_tree, decoder)
       IN  /\ decoder' = r.d
           /\ ret' = [st |-> r.st, val |-> r.val]
    /\ pc' = "done"
    /\ UNCHANGED <<call_vars, bitlengths, literal_tree, arg>>

TreeNext == tree_from_bitlengths \/ tree_decode_symbol

TreeSpec == TreeInit /\ [][TreeNext]_vars

-----------------------------------------------------------------------------
(* Decoder on its own: a reader made from a short buffer, and any sequence  *)
(* of its operations applied to it until one of them panics.  arg is the    *)
(* operation applied last and its argument, ret what it returned.           *)

MaxReaderLen == 3    \* bytes of the buffer
MaxNextBits == 16    \* the widest field asked of next_bits
MaxByteCount == 2    \* the most bytes asked of next_bytes_as_number and _as_slice

ReaderBytes == {77, 178}

DecoderInit ==
    /\ NoCall
    /\ bitlengths = <<>> /\ literal_tree = NoTree
    /\ decoder \in {from_bytes(x) : x \in SeqsUpTo(ReaderBytes, MaxReaderLen)}
    /\ pc = "reader"
    /\ arg = [op |-> "from_bytes", n |-> 0]
    /\ ret = [ok |-> TRUE, val |-> 0]

\* the operation op(n) was applied and gave r = [ok, val, d]; a panic ends the run
applied(op, n, r) ==
    /\ pc = "reader"
    /\ arg' = [op |-> op, n |-> n]
    /\ ret' = [ok |-> r.ok, val |-> r.val]
    /\ IF r.ok THEN decoder' = r.d /\ pc' = "reader"
               ELSE decoder' = decoder /\ pc' = "done"
    /\ UNCHANGED <<call_vars, bitlengths, literal_tree>>

reader_next_bit == applied("next_bit", 0, next_bit(decoder))

reader_next_bits == \E n \in 0..MaxNextBits : applied("next_bits", n, next_bits(decoder, n))

reader_next_byte == applied("next_byte", 0, next_byte(decoder))

reader_next_bytes_as_number ==
    \E n \in 0..MaxByteCount :
        applied("next_bytes_as_number", n, next_bytes_as_number(decoder, n))

reader_next_bytes_as_slice ==
    \E n \in 0..MaxByteCount :
        applied("next_bytes_as_slice", n, next_bytes_as_slice(decoder, n))

DecoderNext ==
    \/ reader_next_bit
    \/ reader_next_bits
    \/ reader_next_byte
    \/ reader_next_bytes_as_number
    \/ reader_next_bytes_as_slice

DecoderSpec == DecoderInit /\ [][DecoderNext]_vars

-----------------------------------------------------------------------------
(* The symbol loop of a fixed block close to its iteration limit.  The loop *)
(* of decode_length_distance_pairs is at the head of iteration k only after *)
(* k symbols, that is after at least k bits of input and k bytes of output: *)
(* with k near LARGE_ITERATION_COUNT neither fits in a state.  Here the     *)
(* state at the head of such an iteration is kept up to what the rest of    *)
(* the loop touches: decoder reads the bytes of the input from the cursor   *)
(* on, output holds the bytes pushed from there on.  The symbols ahead are  *)
(* literals and ends of block, so that no copy reaches back into the bytes  *)
(* left out.                                                                *)

MaxLoopTail == 2     \* iterations left before the limit, and symbols ahead

\* the rest of the input: the fixed codes of the symbols x, then zeros
LoopTails ==
    {pack(flatten([i \in 1..Len(x) |-> RefFixedLitBits(x[i])])) :
        x \in SeqsUpTo(FixedLiterals \cup {256}, MaxLoopTail + 1)}

LoopInit ==
    /\ entry = "decompress" /\ shape = "long_block" /\ plain = <<>>
    /\ input \in LoopTails
    /\ decoder = from_bytes(input)
    /\ pc = "symbols"
    /\ output = <<>>
    /\ blocks = 1
    /\ bfinal \in {0, 1} /\ btype = 1
    /\ len = 0
    /\ TreeLocalsIdle
    /\ literal_tree = static_literal_tree /\ distance_tree = static_distance_tree
    /\ iterations \in (LARGE_ITERATION_COUNT - MaxLoopTail)..LARGE_ITERATION_COUNT
    /\ symbol = 0 /\ length = 0 /\ distance = 0
    /\ result = Running
    /\ arg = 0 /\ ret = 0

\* the loop, the return to the block loop, and the header read after it
LoopNext ==
    \/ decode_step
    \/ block_end
    \/ block_header

LoopSpec == LoopInit /\ [][LoopNext]_vars

-----------------------------------------------------------------------------
(* decompress_zlib called twice: on an input, then on a second input of the *)
(* same length.  arg holds the input of the other call; ret the number of   *)
(* the call that runs and the result of the first call once it has ended.   *)

PairPayloads ==
    ZlibPayloads \cup {pack(EncDynamic(<<>>, 1, DynCopy)), HelloDeflated}

PairInputs ==
    {Zlib(h[1], h[2], <<>>, payload, check) :
        h \in {<<120, 1>>, <<120, 156>>, <<0, 0>>, <<255, 223>>},
        payload \in PairPayloads, check \in {<<0, 0, 0, 0>>, HelloAdler}}
    \cup
    {Zlib(h[1], h[2], dictid, payload, check) :
        h \in {<<120, 187>>, <<255, 255>>, <<0, 32>>},
        dictid \in {<<0, 0, 0, 0>>, <<1, 2, 3, 4>>},
        payload \in PairPayloads, check \in {<<0, 0, 0, 0>>, HelloAdler}}

\* the locals of a call that has not started
CallStart ==
    /\ pc = "call"
    /\ decoder = NoDecoder
    /\ output = <<>>
    /\ blocks = 0
    /\ bfinal = 0 /\ btype = 0
    /\ len = 0
    /\ TreeLocalsIdle
    /\ literal_tree = NoTree /\ distance_tree = NoTree
    /\ iterations = 0
    /\ symbol = 0 /\ length = 0 /\ distance = 0
    /\ result = Running

PairInit ==
    /\ entry = "decompress_zlib" /\ shape = "pair" /\ plain = <<>>
    /\ input \in PairInputs
    /\ arg \in {x \in PairInputs : Len(x) = Len(input)}
    /\ ret = [run |-> 1, first |-> Running]
    /\ CallStart

\* the first call has ended: the second call, on the other input
call_again ==
    /\ pc = "done" /\ ret.run = 1
    /\ ret' = [run |-> 2, first |-> result]
    /\ input' = arg /\ arg' = input
    /\ pc' = "call"
    /\ decoder' = NoDecoder
    /\ output' = <<>>
    /\ blocks' = 0
    /\ bfinal' = 0 /\ btype' = 0
    /\ len' = 0
    /\ hlit' = 0 /\ hdist' = 0 /\ hclen' = 0
    /\ code_length_tree' = NoTree /\ bitlengths' = <<>> /\ bitlengths_count' = 0
    /\ literal_tree' = NoTree /\ distance_tree' = NoTree
    /\ iterations' = 0
    /\ symbol' = 0 /\ length' = 0 /\ distance' = 0
    /\ result' = Running
    /\ UNCHANGED <<entry, shape, plain>>

PairNext ==
    \/ decompress_zlib_call
    \/ block_header
    \/ read_uncompressed_len
    \/ read_uncompressed_copy
    \/ decompress_huffman_static
    \/ read_trees_header
    \/ read_trees_symbol
    \/ read_trees_build
    \/ decode_step
    \/ block_end
    \/ call_again

PairSpec == PairInit /\ [][PairNext]_vars

-----------------------------------------------------------------------------
(* The properties.  They read the input through RefBit and RefField, which  *)
(* index the buffer directly, and not through the Decoder.                  *)

\* bit number p of a buffer: bit p % 8 of byte p \div 8
RefBit(data, p) == (data[(p \div 8) + 1] \div (2 ^ (p % 8))) % 2

\* the n-bit field at bit p, first bit least significant
RECURSIVE RefField(_, _, _)
RefField(data, p, n) ==
    IF n = 0 THEN 0 ELSE RefBit(data, p) + 2 * RefField(data, p + 1, n - 1)

\* the bit position of a decoder
BitPos(d) == 8 * d.byte + d.bit

\* C1: round trip: when the input is what a conformant encoder writes for the
\* text `plain` (stored, fixed or dynamic blocks, with or without the zlib
\* envelope), the call returns Ok(plain).
C1_RoundTrip == (pc = "done" /\ Conformant) => result = Ok(plain)

\* C2: stored block exactness: once LEN and NLEN have been read and agree, and
\* the LEN bytes that follow are in the input, read_uncompressed appends exactly
\* those LEN bytes and leaves the byte cursor right after them.
C2_StoredExact ==
    [][(pc = "read_uncompressed_copy" /\ decoder.byte + len <= Len(decoder.data))
        => /\ pc' = "block_end"
           /\ output' = output \o SubSeq(decoder.data, decoder.byte + 1, decoder.byte + len)
           /\ decoder'.byte = decoder.byte + len
           /\ decoder'.bit = 0]_vars

\* the byte at which a stored block's LEN starts: the next byte boundary
LenAt(d) == IF d.bit > 0 THEN d.byte + 1 ELSE d.byte

\* the LEN and NLEN fields at a decoder about to read them, and whether NLEN is
\* the bitwise complement of LEN
HasLengths(d) == LenAt(d) + 4 <= Len(d.data)
LenField(d) == d.data[LenAt(d) + 1] + 256 * d.data[LenAt(d) + 2]
NlenField(d) == d.data[LenAt(d) + 3] + 256 * d.data[LenAt(d) + 4]
Complementary(a, b) == \A i \in 0..15 : BitOf(a, i) # BitOf(b, i)

\* C3: a stored block whose NLEN is not the bitwise complement of its LEN makes
\* the call return Err(UncompressedLengthMismatch), and the output is not
\* touched on the way.
C3_LengthMismatch ==
    [][(/\ pc = "read_uncompressed"
        /\ HasLengths(decoder)
        /\ ~Complementary(LenField(decoder), NlenField(decoder)))
        => /\ pc' = "done"
           /\ result' = Err("UncompressedLengthMismatch")
           /\ output' = output]_vars

\* C3 witness: the second block of a stream fails the check after the first
\* block produced output.
C3_Witness ==
    /\ pc = "done" /\ result = Err("UncompressedLengthMismatch")
    /\ blocks = 2 /\ output = <<97>>

\* C4: a length-distance pair (L, D) with 1 <= D <= n, n the output length,
\* leaves n + L bytes of output, the first n unchanged and each new byte equal
\* to the byte D places before it, also when D < L.
C4_OverlappingCopy ==
    [][(pc = "symbols" /\ pc' = "symbols" /\ symbol' >= 257)
        => LET n == Len(output)
               L == length'
               D == distance'
           IN  (1 <= D /\ D <= n)
               => /\ Len(output') = n + L
                  /\ SubSeq(output', 1, n) = output
                  /\ \A i \in (n + 1)..(n + L) : output'[i] = output'[i - D]]_vars

\* C4 witness: output "a", then (length 4, distance 1): "aaaaa".
C4_Witness ==
    /\ pc = "symbols" /\ symbol = 258 /\ length = 4 /\ distance = 1
    /\ output = <<97, 97, 97, 97, 97>>

\* C5: a fixed block of the 8-bit codes 0x30 + symbol of literals 0 .. 143 and
\* the 7-bit end-of-block code decodes to exactly those literals, with the trees
\* of the fixed length tables and without any step of read_trees.
C5_FixedLiterals ==
    shape = "fixed_literals"
    => /\ pc = "done" => result = Ok(plain)
       /\ pc = "symbols" => /\ literal_tree = static_literal_tree
                            /\ distance_tree = static_distance_tree
                            /\ \A i \in 1..Len(output) : output[i] = plain[i]
       /\ pc \notin {"read_trees", "code_lengths"}
       /\ code_length_tree = NoTree /\ bitlengths = <<>> /\ bitlengths_count = 0

\* C5 witness: the literals 0 and 143, the two ends of the range, decoded.
C5_Witness == shape = "fixed_literals" /\ pc = "done" /\ result = Ok(<<0, 143>>)


\* the dynamic blocks of the inputs, each with the stream that holds it alone
DynamicStreams ==
    {<<dyn, pack(EncDynamic(<<>>, 1, dyn))>> :
        dyn \in {DynCopy, DynRepeat, DynZeros, DynOverrun}}

\* entries from .. to - 1 (0-based) of the array bl are all v
AllAre(bl, from, to, v) == \A k \in (from + 1)..to : bl[k] = v

\* C6: each code-length symbol extends the bit-length array as RFC 1951 says: a
\* symbol 0 .. 15 appends itself, 16 appends (2 bits + 3) copies of the entry
\* before it, 17 appends (3 bits + 3) zeros, 18 appends (7 bits + 11) zeros; the
\* entries already there stay; symbols are decoded while fewer than
\* HLIT + HDIST + 258 entries exist and no longer; and the array built from a
\* whole symbol sequence is its reference expansion.
C6_RepeatCodes ==
    [][pc = "code_lengths"
        => LET s == decode_symbol(code_length_tree, decoder)
               n == bitlengths_count
               extra(k) == RefField(decoder.data, BitPos(s.d), k)
               grown(m, v) == /\ bitlengths_count' = n + m
                              /\ AllAre(bitlengths', n, n + m, v)
                              /\ SubSeq(bitlengths', 1, n) = SubSeq(bitlengths, 1, n)
                              /\ AllAre(bitlengths', n + m, ARRAY_LEN, 0)
           IN  /\ (n < hlit + hdist /\ pc' = "code_lengths")
                  => /\ s.st = "ok"
                     /\ s.val <= 15 => grown(1, s.val)
                     /\ s.val = 16 => n >= 1 /\ grown(extra(2) + 3, bitlengths[n])
                     /\ s.val = 17 => grown(extra(3) + 3, 0)
                     /\ s.val = 18 => grown(extra(7) + 11, 0)
               /\ n < hlit + hdist => pc' \in {"code_lengths", "done"}
               /\ n >= hlit + hdist
                  => /\ pc' = "symbols" /\ decoder' = decoder
                     /\ \A ds \in DynamicStreams :
                           input = ds[2]
                           => SubSeq(bitlengths, 1, n) = RefExpand(ds[1].cl_syms, <<>>)]_vars

\* C6 witness: the lengths of a block that uses 16, 17 and 18 are complete.
C6_Witness ==
    /\ pc = "code_lengths" /\ bitlengths_count = hlit + hdist
    /\ \E ds \in DynamicStreams : ds[1] = DynRepeat /\ input = ds[2]
    /\ AllAre(bitlengths, 97, 101, 3)

\* whether the three header bits of a block can be read at decoder d
HasHeader(d) == BitPos(d) + 3 <= 8 * Len(d.data)

\* C7: a block whose two type bits are both 1 makes the call return
\* Err(IllegalBlockFormat), which carries no output, whether the block is the
\* first or a later one and whatever its final flag.
C7_ReservedType ==
    [][(/\ pc = "block"
        /\ HasHeader(decoder)
        /\ RefBit(decoder.data, BitPos(decoder) + 1) = 1
        /\ RefBit(decoder.data, BitPos(decoder) + 2) = 1)
        => /\ pc' = "done"
           /\ result'.tag = "Err" /\ result'.err = "IllegalBlockFormat"
           /\ result'.output = <<>>]_vars

\* C7 witness: the second block of a stream has type 11, is not final, and the
\* first block produced output.
C7_Witness ==
    /\ pc = "done" /\ result = Err("IllegalBlockFormat")
    /\ blocks = 2 /\ bfinal = 0 /\ output = <<97>>

\* C8: when the input ends before the walk of decode_symbol reaches a leaf, in
\* the symbol loop of a Huffman block or in the code-length loop, the call
\* returns Err(TreeError).
C8_TruncatedCode ==
    [][(\/ /\ pc = "symbols"
           /\ decode_symbol(literal_tree, decoder).st = "abort"
        \/ /\ pc = "code_lengths" /\ bitlengths_count < hlit + hdist
           /\ decode_symbol(code_length_tree, decoder).st = "abort")
        => result' = Err("TreeError")]_vars

\* C9: the call ends with Ok or with Err of one of the four kinds, never by a
\* panic.
C9_NoAbort ==
    /\ result.tag # "abort"
    /\ pc = "done"
       => \/ result.tag = "Ok"
          \/ /\ result.tag = "Err"
             /\ result.err \in {"IllegalBlockFormat", "UncompressedLengthMismatch",
                                "TreeError", "IllegalSmallTree"}

\* the first byte of the payload of a zlib stream: 2, or 6 when FDICT (bit 5 of
\* the second byte) is set
PayloadStart(data) == IF RefBit(data, 8 + 5) = 1 THEN 6 ELSE 2

\* C10: decompress_zlib on an input of at least s + 4 bytes (s = 2, or 6 with
\* FDICT set) does what decompress does on the bytes s .. len - 5: it ends
\* only inside the block loop, and the decoder of that loop reads exactly that
\* slice.
C10_ZlibSlice ==
    (/\ entry = "decompress_zlib" /\ pc # "call"
     /\ Len(input) >= 6 /\ Len(input) >= PayloadStart(input) + 4)
    => /\ decoder.data = SubSeq(input, PayloadStart(input) + 1, Len(input) - 4)
       /\ pc = "done" => blocks >= 1

\* C10 witness: a stream with FDICT set whose payload decodes to "aaaaa".
C10_Witness ==
    /\ entry = "decompress_zlib" /\ pc = "done"
    /\ Len(input) >= 10 /\ RefBit(input, 13) = 1
    /\ result = Ok(<<97, 97, 97, 97, 97>>)

\* C11: the block loop goes on only after a block that is not final; a stream
\* of well-formed blocks, the last one final, returns the texts of its blocks
\* in order, whether or not bytes follow the final block; and no bit of the
\* bytes that follow the final block is ever read.
C11_StopsAtFinalBlock ==
    /\ (pc = "block" /\ blocks >= 1) => bfinal = 0
    /\ (shape \in {"multi", "trailing"} /\ pc = "done") => result = Ok(plain)
    /\ shape = "trailing" => BitPos(decoder) <= 8 * (Len(input) - Len(TrailingBytes))

\* C12: a stream of well-formed blocks none of which is final makes the call
\* return Ok with the output produced so far; and a call returns Ok after a
\* block that is not final only when the block loop has run
\* LARGE_ITERATION_COUNT times.
C12_NoFinalFlagOk ==
    /\ (shape = "no_final" /\ pc = "done") => result = Ok(output)
    /\ (pc = "done" /\ result.tag = "Ok")
       => (bfinal # 0 \/ blocks >= LARGE_ITERATION_COUNT)

\* every child of a node of the arena was handed out after the node itself
Acyclic(tree) ==
    \A i \in 1..Len(tree.nodes) :
        \A side \in {"left", "right"} :
            \/ tree.nodes[i][side] = None
            \/ /\ tree.nodes[i][side] > i - 1
               /\ tree.nodes[i][side] < tree.next_free_node

\* the positions of the code in the order in which steps that read no bit can
\* follow one another
Rank(p) ==
    CASE p = "done" -> 0
      [] p = "block" -> 1
      [] p = "block_end" -> 2
      [] p \in {"symbols", "read_uncompressed_copy"} -> 3
      [] p \in {"code_lengths", "huffman_static", "read_uncompressed", "read_trees"} -> 4
      [] p = "call" -> 5

\* what is left to do: the bits of the input not read yet, then the position
Measure == 8 * (8 * Len(input) - BitPos(decoder)) + Rank(pc)

\* C13: every call ends after a bounded number of steps.  Every step of the
\* call lowers Measure, a natural number that starts at 64 * Len(input) + 5:
\* a step either reads a bit or moves to a later position.  In particular an
\* iteration of the block loop counts one block and reads its header, an
\* iteration of the symbol loop that goes on has counted itself and read at
\* least one bit, an iteration of the code-length loop that goes on has raised
\* the entry count, and every tree that decode_symbol walks is acyclic, a
\* child lying after its parent in the arena.
C13_Terminates ==
    [][/\ Measure' < Measure
       /\ Measure' >= 0
       /\ blocks' <= LARGE_ITERATION_COUNT /\ iterations' <= LARGE_ITERATION_COUNT
       /\ Acyclic(code_length_tree') /\ Acyclic(literal_tree')
       /\ Acyclic(distance_tree')
       /\ pc = "block" => blocks' = blocks + 1
       /\ (pc = "symbols" /\ pc' = "symbols")
          => /\ iterations' = iterations + 1
             /\ BitPos(decoder') > BitPos(decoder)
       /\ (pc = "code_lengths" /\ pc' = "code_lengths")
          => /\ bitlengths_count' > bitlengths_count
             /\ BitPos(decoder') > BitPos(decoder)]_vars

\* C13 witness: a call that ran the block loop twice, the code-length loop and
\* the symbol loop has ended.
C13_Witness ==
    /\ pc = "done" /\ blocks = 2 /\ hlit >= 257
    /\ bitlengths_count >= hlit + hdist /\ iterations >= 3
    /\ result.tag = "Ok"

\* the next four bits of the buffer of d at bit p are there and are all 1: the
\* start of the 5-bit codes 30 and 31
DistanceCode30or31(d, p) ==
    /\ p + 4 <= 8 * Len(d.data)
    /\ \A k \in 0..3 : RefBit(d.data, p + k) = 1

\* C14: in the symbol loop a literal/length symbol above 285 makes the call
\* return Err(TreeError), and so does, in a fixed block, a length symbol
\* followed (after its extra bits) by the distance code 30 or 31.
C14_BadSymbolTreeError ==
    [][pc = "symbols"
        => LET s == decode_symbol(literal_tree, decoder)
           IN  /\ (s.st = "ok" /\ s.val > 285)
                  => (pc' = "done" /\ result' = Err("TreeError"))
               /\ (/\ s.st = "ok" /\ s.val \in 257..285 /\ btype = 1
                   /\ DistanceCode30or31(s.d,
                          BitPos(s.d) + TABLE_LENGTH_EXTRA_BITS[s.val - 256]))
                  => (pc' = "done" /\ result' = Err("TreeError"))]_vars

\* no node of the tree that holds a symbol has a child
PrefixFree(tree) ==
    \A i \in 1..Len(tree.nodes) :
        tree.nodes[i].symbol # None
        => (tree.nodes[i].left = None /\ tree.nodes[i].right = None)

\* the symbols held by the nodes of the tree
SymbolsOf(tree) == {tree.nodes[i].symbol : i \in 1..Len(tree.nodes)} \ {None}

\* C16: every tree the decoder builds is prefix-free, no node that holds a
\* symbol having a child, and no leaf is overwritten: once the two trees of a
\* dynamic block are built, every symbol that has a nonzero length in the
\* array read from the block is held by a node of its tree.
C16_PrefixFree ==
    /\ PrefixFree(code_length_tree) /\ PrefixFree(literal_tree)
    /\ PrefixFree(distance_tree)
    /\ (pc = "symbols" /\ btype = 2)
       => /\ \A k \in 0..(hlit - 1) : bitlengths[k + 1] # 0 => k \in SymbolsOf(literal_tree)
          /\ \A k \in 0..29 : bitlengths[hlit + k + 1] # 0 => k \in SymbolsOf(distance_tree)

\* whether the lengths satisfy the Kraft inequality: the codes fit in the code
\* space, sum of 2 ^ -len over the nonzero lengths <= 1 (scaled by 2 ^ 15)
RECURSIVE KraftSum(_, _)
KraftSum(bl, k) ==
    IF k = 0 THEN 0
    ELSE KraftSum(bl, k - 1) + (IF bl[k] = 0 THEN 0 ELSE 2 ^ (15 - bl[k]))
Kraft(bl) == KraftSum(bl, Len(bl)) <= 2 ^ 15

\* the node reached from node `current` along the bits (1 = right), or None
RECURSIVE Walk(_, _, _)
Walk(tree, current, bits) ==
    IF current = None \/ bits = <<>> THEN current
    ELSE Walk(tree, tree.nodes[current + 1][IF Head(bits) = 1 THEN "right" ELSE "left"],
              Tail(bits))

\* C15: from_bitlengths assigns the canonical codes of RFC 1951, 3.2.2: the
\* first code of each length is (first code of the length before + number of
\* codes of the length before) * 2, zero lengths not counted; the symbols of
\* nonzero length get consecutive codes of their length in alphabet order, and
\* (when the lengths fit the code space) sit in the tree at the end of the path
\* of their code; symbols of length 0 are not in the tree.
C15_CanonicalCodes ==
    pc \in {"decode_symbol", "done"}
    => LET bl == bitlengths
           alphabet == range(0, Len(bl))
       IN  /\ \A n \in 1..max(bl) : first_codes(bl)[n + 1] = RefNextCode(bl, n)
           /\ \A i \in 0..(Len(bl) - 1) :
                 /\ bl[i + 1] # 0 => code_of(bl, alphabet, i) = RefCode(bl, i)
                 /\ (bl[i + 1] # 0 /\ Kraft(bl))
                    => LET node == Walk(literal_tree, 0, msb(RefCode(bl, i), bl[i + 1]))
                       IN  node # None /\ literal_tree.nodes[node + 1].symbol = i
                 /\ bl[i + 1] = 0 => i \notin SymbolsOf(literal_tree)

\* C15 witness: the lengths 2, 1, 3, 3 give the codes 10, 0, 110, 111.
C15_Witness ==
    /\ pc = "decode_symbol" /\ bitlengths = <<2, 1, 3, 3>>
    /\ code_of(bitlengths, range(0, 4), 0) = 2 /\ code_of(bitlengths, range(0, 4), 1) = 0
    /\ code_of(bitlengths, range(0, 4), 2) = 6 /\ code_of(bitlengths, range(0, 4), 3) = 7
    /\ literal_tree.nodes[Walk(literal_tree, 0, <<1, 1, 0>>) + 1].symbol = 2

\* the next n bits of the buffer of d are there and are the n-bit code `code`,
\* most significant bit first
NextBitsAre(d, code, n) ==
    /\ BitPos(d) + n <= 8 * Len(d.data)
    /\ \A k \in 1..n : RefBit(d.data, BitPos(d) + k - 1) = msb(code, n)[k]

\* C17: for lengths that satisfy the Kraft inequality and a symbol s of
\* nonzero length n, decode_symbol on a stream whose next n bits are the
\* canonical code of s, most significant bit first, returns s and moves the
\* bit position forward by exactly n.
C17_InsertDecodeRoundTrip ==
    [][(pc = "decode_symbol" /\ Kraft(bitlengths))
        => \A s \in 0..(Len(bitlengths) - 1) :
              (/\ bitlengths[s + 1] # 0
               /\ NextBitsAre(decoder, RefCode(bitlengths, s), bitlengths[s + 1]))
              => /\ ret' = [st |-> "ok", val |-> s]
                 /\ BitPos(decoder') = BitPos(decoder) + bitlengths[s + 1]]_vars

\* C17 witness: with the lengths 2, 1, 3, 3 the code 110 of symbol 2, read
\* from bit 6 of a byte on, has been decoded.
C17_Witness ==
    /\ pc = "done" /\ bitlengths = <<2, 1, 3, 3>>
    /\ decoder = [data |-> <<192, 0>>, byte |-> 1, bit |-> 1]
    /\ ret = [st |-> "ok", val |-> 2]

\* the first j bits of the buffer of d from its position on
BitsAhead(d, j) == [i \in 1..j |-> RefBit(d.data, BitPos(d) + i - 1)]

HasChild(tree, n) == tree.nodes[n + 1].left # None \/ tree.nodes[n + 1].right # None

\* the walk from the root along the bits ahead comes, after k - 1 steps through
\* nodes that have children, to a node whose child on the side of bit k is absent
NeedsAbsentChild(tree, d) ==
    \E k \in 1..MaxBitLength :
        /\ BitPos(d) + k <= 8 * Len(d.data)
        /\ Walk(tree, 0, BitsAhead(d, k - 1)) # None
        /\ \A j \in 0..(k - 1) : HasChild(tree, Walk(tree, 0, BitsAhead(d, j)))
        /\ Walk(tree, 0, BitsAhead(d, k)) = None

\* C18: decode_symbol returns TreeError exactly when the walk needs a child
\* that is absent or the tree is empty.  An empty tree, the one of lengths that
\* are all 0, gives TreeError with no bit read; with lengths that satisfy the
\* Kraft inequality, bits ahead that start with no symbol's code give
\* TreeError; and so do the 5-bit codes 30 and 31 in the fixed distance tree.
C18_TreeErrorExactly ==
    [][pc = "decode_symbol"
        => /\ ret'.st = "TreeError"
              <=> (~HasChild(literal_tree, 0) \/ NeedsAbsentChild(literal_tree, decoder))
           /\ ~HasChild(literal_tree, 0) => decoder' = decoder
           /\ (\A i \in 1..Len(bitlengths) : bitlengths[i] = 0)
              => (ret'.st = "TreeError" /\ decoder' = decoder)
           /\ (/\ Kraft(bitlengths)
               /\ BitPos(decoder) + MaxBitLength <= 8 * Len(decoder.data)
               /\ \A s \in 0..(Len(bitlengths) - 1) :
                     bitlengths[s + 1] # 0
                     => ~NextBitsAre(decoder, RefCode(bitlengths, s), bitlengths[s + 1]))
              => ret'.st = "TreeError"
           /\ \A b \in {15, 31} :
                 decode_symbol(static_distance_tree, from_bytes(<<b>>)).st = "TreeError"]_vars

\* C18 witness: with the lengths 2, 2, 2 (codes 00, 01, 10) the bits 11 have
\* been read and TreeError returned.
C18_Witness ==
    /\ pc = "done" /\ bitlengths = <<2, 2, 2>>
    /\ decoder = [data |-> <<3>>, byte |-> 0, bit |-> 2]
    /\ ret.st = "TreeError"

\* C19: next_bit returns the bit of the buffer at the cursor, bit 0 of a byte
\* being its least significant one, and moves the cursor by one bit: the bit
\* cursor grows by 1, or falls from 7 to 0 while the byte cursor grows by 1;
\* and after every operation of the reader the bit cursor is in 0 .. 7.
C19_NextBit ==
    [][/\ decoder'.bit \in 0..7
       /\ (pc = "reader" /\ arg'.op = "next_bit" /\ decoder.byte < Len(decoder.data))
          => /\ ret' = [ok |-> TRUE, val |-> RefBit(decoder.data, 8 * decoder.byte + decoder.bit)]
             /\ decoder'.data = decoder.data
             /\ IF decoder.bit = 7
                THEN decoder'.bit = 0 /\ decoder'.byte = decoder.byte + 1
                ELSE decoder'.bit = decoder.bit + 1 /\ decoder'.byte = decoder.byte]_vars

\* C19 witness: bit 7 of the byte 178 was read: it is 1, and the cursor rolled
\* over to bit 0 of the next byte.
C19_Witness ==
    /\ pc = "reader" /\ arg = [op |-> "next_bit", n |-> 0]
    /\ decoder = [data |-> <<178, 77>>, byte |-> 1, bit |-> 0]
    /\ ret = [ok |-> TRUE, val |-> 1]

\* C20: next_bits(n), 0 <= n <= 16, with n bits left in the buffer returns the
\* sum of (bit i read) * 2 ^ i, the first bit read least significant, and
\* moves the bit position by exactly n; next_bits(0) returns 0 and leaves the
\* cursor where it is.
C20_NextBits ==
    [][(/\ pc = "reader" /\ arg'.op = "next_bits"
        /\ BitPos(decoder) + arg'.n <= 8 * Len(decoder.data))
        => /\ ret' = [ok |-> TRUE, val |-> RefField(decoder.data, BitPos(decoder), arg'.n)]
           /\ BitPos(decoder') = BitPos(decoder) + arg'.n
           /\ decoder'.bit \in 0..7 /\ decoder'.data = decoder.data
           /\ arg'.n = 0 => (ret'.val = 0 /\ decoder' = decoder)]_vars

\* C20 witness: 16 bits read from bit 3 of the buffer B2 4D B2 on, across two
\* byte boundaries: 18870 = (0xB2 >> 3) + (0x4D << 5) + ((0xB2 & 7) << 13).
C20_Witness ==
    /\ pc = "reader" /\ arg = [op |-> "next_bits", n |-> 16]
    /\ decoder = [data |-> <<178, 77, 178>>, byte |-> 2, bit |-> 3]
    /\ ret = [ok |-> TRUE, val |-> 18870]

\* the byte cursor after the skip of the unread bits of the current byte
AlignedByte(d) == IF d.bit > 0 THEN d.byte + 1 ELSE d.byte

\* the n bytes of data from index a on, read as a little-endian number
RECURSIVE RefNumber(_, _, _)
RefNumber(data, a, n) ==
    IF n = 0 THEN 0 ELSE data[a + 1] + 256 * RefNumber(data, a + 1, n - 1)

\* what a byte-aligned read of k bytes that skips exactly when the bit cursor
\* is nonzero does to the cursor
AlignedRead(k) ==
    /\ ret'.ok
    /\ decoder' = [data |-> decoder.data, byte |-> AlignedByte(decoder) + k, bit |-> 0]

\* next_byte and next_bytes_as_slice as C21 states them
AlignedByteAndSlice ==
    /\ (/\ pc = "reader" /\ arg'.op = "next_byte"
        /\ AlignedByte(decoder) + 1 <= Len(decoder.data))
       => /\ AlignedRead(1)
          /\ ret'.val = decoder.data[AlignedByte(decoder) + 1]
    /\ (/\ pc = "reader" /\ arg'.op = "next_bytes_as_slice"
        /\ AlignedByte(decoder) + arg'.n <= Len(decoder.data))
       => /\ AlignedRead(arg'.n)
          /\ ret'.val = [i \in 1..arg'.n |-> decoder.data[AlignedByte(decoder) + i]]

\* next_bytes_as_number(n), n in ns, as C21 states it
AlignedNumber(ns) ==
    (/\ pc = "reader" /\ arg'.op = "next_bytes_as_number" /\ arg'.n \in ns
     /\ AlignedByte(decoder) + arg'.n <= Len(decoder.data))
    => /\ AlignedRead(arg'.n)
       /\ ret'.val = RefNumber(decoder.data, AlignedByte(decoder), arg'.n)
       /\ arg'.n = 2 => ret'.val = decoder.data[AlignedByte(decoder) + 1]
                                   + 256 * decoder.data[AlignedByte(decoder) + 2]

C22_CursorInBuffer ==
    (Conformant \/ shape = "trailing")
    => /\ decoder.byte <= Len(decoder.data)
       /\ result.tag # "abort"

\* the order in which C23 says the code-length code lengths are stored
ORDER == <<16, 17, 18, 0, 8, 7, 9, 6, 10, 5, 11, 4, 12, 3, 13, 2, 14, 1, 15>>

\* the 19-slot array C23 describes, for a dynamic block whose HLIT field is at
\* bit p of data: value i of the HCLEN + 4 values in slot ORDER[i], 0 elsewhere
RefCodeLengthArray(data, p) ==
    LET n == RefField(data, p + 10, 4) + 4
    IN  [k \in 1..19 |->
            IF \E i \in 0..(n - 1) : ORDER[i + 1] = k - 1
            THEN LET i == CHOOSE j \in 0..(n - 1) : ORDER[j + 1] = k - 1
                 IN  RefField(data, p + 14 + 3 * i, 3)
            ELSE 0]

\* C23: in a dynamic block whose header is complete in the input, read_trees
\* reads exactly HCLEN + 4 values of 3 bits after the three counts, value i
\* goes to slot ORDER[i] of a 19-slot array whose other slots stay 0, and the
\* code-length tree is built from that array over the alphabet 0 .. 18.
C23_CodeLengthOrder ==
    [][(/\ pc = "read_trees"
        /\ BitPos(decoder) + 14 <= 8 * Len(decoder.data)
        /\ BitPos(decoder) + 14 + 3 * (RefField(decoder.data, BitPos(decoder) + 10, 4) + 4)
               <= 8 * Len(decoder.data))
        => /\ pc' = "code_lengths"
           /\ hclen' = RefField(decoder.data, BitPos(decoder) + 10, 4) + 4
           /\ BitPos(decoder') = BitPos(decoder) + 14 + 3 * hclen'
           /\ code_length_tree' =
                  from_bitlengths(RefCodeLengthArray(decoder.data, BitPos(decoder)),
                                  range(0, 19))
           /\ SymbolsOf(code_length_tree') \subseteq 0..18]_vars

\* C23 witness: a header of 18 values, of which the third (slot 18) and the
\* last (slot 1) are 1: the tree has the two one-bit codes of symbols 1 and 18.
C23_Witness ==
    /\ pc = "code_lengths" /\ bitlengths_count = 0 /\ hclen = 18
    /\ code_length_tree =
           [nodes |-> <<[symbol |-> None, left |-> 1, right |-> 2],
                        [symbol |-> 1, left |-> None, right |-> None],
                        [symbol |-> 18, left |-> None, right |-> None]>>,
            next_free_node |-> 3]

\* C24: when the two trees of a dynamic block are built, the literal/length
\* tree is the tree of the first HLIT + 257 entries of the array (hlit holds
\* HLIT + 257) and the distance tree the tree of the HDIST + 1 entries that
\* follow (hdist holds HDIST + 1); an entry at or beyond hlit + hdist gives
\* neither tree a symbol or a code count.
C24_SplitAtHlit ==
    [][(pc = "code_lengths" /\ pc' = "symbols")
        => /\ literal_tree' = from_bitlengths(slice(bitlengths, 0, hlit), range(0, hlit))
           /\ distance_tree' =
                  from_bitlengths(slice(bitlengths, hlit, hlit + hdist), range(0, hdist))
           /\ SymbolsOf(literal_tree') \subseteq 0..(hlit - 1)
           /\ SymbolsOf(distance_tree') \subseteq 0..(hdist - 1)]_vars

\* C25: the output is append-only over the whole call: no step of any block
\* type makes it shorter or changes a byte already written, so the output
\* before a step is a prefix of the output after it, across blocks too.
C25_AppendOnly ==
    [][/\ Len(output') >= Len(output)
       /\ \A i \in 1..Len(output) : output'[i] = output[i]]_vars

\* C25 witness: a second block, a copy of length 3 and distance 1, has
\* extended the byte written by the first block.
C25_Witness ==
    /\ pc = "done" /\ blocks = 2 /\ symbol = 256 /\ length = 3
    /\ result = Ok(<<97, 97, 97, 97>>)

\* C26: a Huffman block ends with Ok only on the end-of-block symbol: the step
\* that leaves the symbol loop for the block loop is the one that decodes
\* symbol 256 from the literal/length tree, and the block loop reads its next
\* header only after a block that ended so, from the bit after that symbol.
C26_EndsOnlyAt256 ==
    [][(pc = "symbols" /\ pc' = "block_end")
        => /\ decode_symbol(literal_tree, decoder).st = "ok"
           /\ decode_symbol(literal_tree, decoder).val = 256
           /\ decoder' = decode_symbol(literal_tree, decoder).d]_vars

\* the length and distance that the next iteration of the symbol loop decodes,
\* when its symbol is a length code and the pair is complete in the input:
\* [ok, length, distance]
PairAhead ==
    LET r == decode_symbol(literal_tree, decoder)
        none == [ok |-> FALSE, length |-> 0, distance |-> 0]
    IN  IF r.st # "ok" \/ r.val < 257 \/ r.val > 285 THEN none
        ELSE
        LET e == next_bits(r.d, TABLE_LENGTH_EXTRA_BITS[r.val - 257 + 1])
            ds == decode_symbol(distance_tree, e.d)
        IN  IF ~e.ok \/ ds.st # "ok" \/ ds.val > 29 THEN none
            ELSE
            LET x == next_bits(ds.d, TABLE_DISTANCE_EXTRA_BITS[ds.val + 1])
            IN  IF ~x.ok THEN none
                ELSE [ok |-> TRUE,
                      length |-> e.val + TABLE_LENGTH_BASE[r.val - 257 + 1],
                      distance |-> x.val + TABLE_DISTANCE_BASE[ds.val + 1]]

\* C27: every back-reference of the symbol loop stays inside the bytes already
\* produced: the distance decoded is at least 1 and at most the length of the
\* output, so that the index output.len() - distance is not negative and the
\* copy does not panic, whatever the input.
C27_BackReferenceInRange ==
    [][(pc = "symbols" /\ iterations < LARGE_ITERATION_COUNT /\ PairAhead.ok)
        => /\ 1 <= PairAhead.distance
           /\ PairAhead.distance <= Len(output)
           /\ result'.tag # "abort"]_vars

\* C28: whenever the code-length loop decodes the repeat code 16, an entry has
\* been produced before it (bitlengths_count >= 1), so that the index
\* bitlengths_count - 1 is not below 0, also when 16 is the first code-length
\* symbol of the block; and bitlengths_count never passes the length of the
\* array.
C28_RepeatHasPrevious ==
    [][/\ (/\ pc = "code_lengths" /\ bitlengths_count < hlit + hdist
           /\ decode_symbol(code_length_tree, decoder).st = "ok"
           /\ decode_symbol(code_length_tree, decoder).val = 16)
          => bitlengths_count >= 1
       /\ bitlengths_count' <= ARRAY_LEN]_vars

\* C29: IllegalSmallTree is unreachable: the code-length tree holds symbols of
\* the alphabet 0 .. 18 only, so the code-length loop never decodes a symbol
\* above 18 from it and no call returns IllegalSmallTree.
C29_NoIllegalSmallTree ==
    /\ SymbolsOf(code_length_tree) \subseteq 0..18
    /\ (pc = "code_lengths" /\ decode_symbol(code_length_tree, decoder).st = "ok")
       => decode_symbol(code_length_tree, decoder).val <= 18
    /\ result # Err("IllegalSmallTree")

\* C29 witness: the code-length loop is about to decode 18, the last symbol
\* of the alphabet.
C29_Witness ==
    /\ pc = "code_lengths" /\ bitlengths_count < hlit + hdist
    /\ decode_symbol(code_length_tree, decoder).st = "ok"
    /\ decode_symbol(code_length_tree, decoder).val = 18

\* the payload of a zlib stream: what lies between the header (2 bytes, or 6
\* with FDICT set) and the last 4 bytes
Payload(data) == SubSeq(data, PayloadStart(data) + 1, Len(data) - 4)

\* two inputs of the same length that differ at most in CMF, in the bits of
\* FLG other than bit 5, in the dictionary id and in the last 4 bytes
SameButEnvelope(a, b) ==
    /\ Len(a) = Len(b)
    /\ RefBit(a, 13) = RefBit(b, 13)
    /\ Payload(a) = Payload(b)

\* C30: the result of decompress_zlib depends only on FDICT and on the
\* payload: two calls on inputs of the same length that differ only in CMF,
\* in the other bits of FLG, in the dictionary id or in the last 4 bytes
\* return the same result; no header byte and no check byte makes a call fail.
C30_EnvelopeIgnored ==
    (pc = "done" /\ ret.run = 2 /\ SameButEnvelope(arg, input))
    => result = ret.first

\* C30 witness: two streams with FDICT set that differ in CMF, in the
\* dictionary id and in the check bytes both returned "aaaaa".
C30_Witness ==
    /\ pc = "done" /\ ret.run = 2 /\ SameButEnvelope(arg, input)
    /\ RefBit(input, 13) = 1
    /\ arg[1] # input[1] /\ arg[3] # input[3] /\ arg[Len(arg)] # input[Len(input)]
    /\ ret.first = Ok(<<97, 97, 97, 97, 97>>)
    /\ result = Ok(<<97, 97, 97, 97, 97>>)

====
